---- MODULE Spec2Model ----
(***************************************************************************)
(* Calculadora de carbono: the route catalog (routes-data.js), the         *)
(* emission calculator (calculator.js), the configuration (config.js),     *)
(* the submit handler of the form (app.js) with the helpers of ui.js, and  *)
(* the distance autofill with the listeners of the manual checkbox.        *)
(*                                                                         *)
(* Strings are sequences of UTF-16 code units, so that trim, toLowerCase   *)
(* and the default sort order of Array.prototype.sort are modelled by what *)
(* they do to the characters.  Numbers are IEEE 754 doubles, so that the   *)
(* products, quotients and roundings are the ones the program computes.    *)
(***************************************************************************)
EXTENDS Integers, Sequences, FiniteSets, TLC

VARIABLES
  pc,           \* which call the client of the core made last
  cityA,        \* first place name, in the spelling the client starts from
  cityB,        \* second place name, in the spelling the client starts from
  originValue,  \* first argument of the latest findDistance call
  destinationValue, \* second argument of the latest findDistance call
  distance,     \* value returned by the latest findDistance call
  reference,    \* value returned by findDistance(cityA, cityB)
  cities,       \* value returned by getAllCities(), <<>> before the call
  typed,        \* the distance as typed, in hundredths of a kilometre
  distanceValue, \* the Number parseFloat makes of the distance typed
  selectedMode,  \* second argument of the latest calculateEmission call
  selectedModeEmission, \* value returned by the latest calculateEmission call
  allModesComparison, \* value returned by the latest calculateAllModes call
  emissionArg,  \* first argument of the latest calculateSavings call, in
                \* thousandths of a kilogram
  baselineArg,  \* its second argument, in thousandths of a kilogram
  savingsData,  \* value returned by the latest calculateSavings call
  emissionKgArg, \* argument of the latest calculateCarbonCredits call, in
                \* hundredths of a kilogram
  creditsNeeded, \* value returned by the latest calculateCarbonCredits call
  creditsArg,   \* argument of the latest estimateCreditPrice call, in
                \* ten-thousandths of a credit
  priceEstimate, \* value returned by the latest estimateCreditPrice call
  fields,       \* what the form held at the latest submit event
  submits,      \* number of submit events so far
  submitButton, \* the submit button of the form
  hidden,       \* ids of the elements that have the class hidden
  timers,       \* closures of the pending timer callbacks, oldest first
  calls,        \* Calculator calls of the latest timer callback, in order
  content,      \* what is rendered in the three content elements
  alertMessage, \* message of the latest alert, "" before the first
  originInput,  \* value of the origin field
  destinationInput, \* value of the destination field
  distanceInput, \* value and readonly attribute of the distance field
  manualCheckbox, \* the manual-distance checkbox
  helperText    \* the help text under the distance field

routesVars == <<cityA, cityB, originValue, destinationValue, distance, reference, cities>>

calculatorVars == <<typed, distanceValue, selectedMode, selectedModeEmission, allModesComparison>>

savingsVars == <<emissionArg, baselineArg, savingsData>>

creditsVars == <<emissionKgArg, creditsNeeded, creditsArg, priceEstimate>>

pageVars == <<fields, submits, submitButton, hidden, timers, calls, content, alertMessage>>

formVars == <<originInput, destinationInput, distanceInput, manualCheckbox, helperText>>

vars == <<pc, routesVars, calculatorVars, savingsVars, creditsVars, pageVars,
          formVars>>

(***************************************************************************)
(* Natural numbers of any size, as sequences of 15-bit limbs, least        *)
(* significant limb first and without leading zero limbs: the 53-bit       *)
(* significands of IEEE 754 doubles and their 106-bit products do not fit  *)
(* the integers of the model checker.                                      *)
(***************************************************************************)

Base == 32768

\* 2^n for 0 <= n <= 30
Pow2(n) == 2 ^ n

Min(m, n) == IF m < n THEN m ELSE n

Max(m, n) == IF m < n THEN n ELSE m

\* limb i of a, 0 beyond its length
Limb(a, i) == IF i <= Len(a) THEN a[i] ELSE 0

\* a without its leading zero limbs
BigTrim(a) ==
  SubSeq(a, 1, CHOOSE n \in 0 .. Len(a) :
                 /\ n > 0 => a[n] # 0
                 /\ \A j \in (n + 1) .. Len(a) : a[j] = 0)

\* for n < 2^31
BigFromNat(n) ==
  BigTrim(<<n % Base, (n \div Base) % Base, n \div (Base * Base)>>)

\* for a < 2^31
BigToNat(a) == Limb(a, 1) + Base * Limb(a, 2) + Base * Base * Limb(a, 3)

\* number of bits of n, for n < Base
BitLenNat(n) ==
  CHOOSE k \in 0 .. 15 : n < Pow2(k) /\ (k = 0 \/ Pow2(k - 1) <= n)

BigBitLen(a) ==
  IF a = <<>> THEN 0 ELSE 15 * (Len(a) - 1) + BitLenNat(a[Len(a)])

\* a < b
BigLess(a, b) ==
  \/ Len(a) < Len(b)
  \/ /\ Len(a) = Len(b)
     /\ \E i \in 1 .. Len(a) :
          /\ a[i] < b[i]
          /\ \A j \in (i + 1) .. Len(a) : a[j] = b[j]

\* the carry into limb i of a + b: a lower limb j overflows and the limbs
\* between j and i are full
Carry(a, b, i) ==
  IF \E j \in 1 .. (i - 1) :
       /\ Limb(a, j) + Limb(b, j) >= Base
       /\ \A k \in (j + 1) .. (i - 1) : Limb(a, k) + Limb(b, k) = Base - 1
  THEN 1 ELSE 0

\* a + b
BigAdd(a, b) ==
  BigTrim([i \in 1 .. Max(Len(a), Len(b)) + 1 |->
             (Limb(a, i) + Limb(b, i) + Carry(a, b, i)) % Base])

\* what limb i of a - b lends: a lower limb j is too small and the limbs
\* between j and i are equal
Borrow(a, b, i) ==
  IF \E j \in 1 .. (i - 1) :
       /\ a[j] < Limb(b, j)
       /\ \A k \in (j + 1) .. (i - 1) : a[k] = Limb(b, k)
  THEN 1 ELSE 0

\* a - b for a >= b
BigSub(a, b) ==
  BigTrim([i \in 1 .. Len(a) |->
             (a[i] - Limb(b, i) - Borrow(a, b, i) + Base) % Base])

\* a * k for 0 <= k <= Base
BigMulSmall(a, k) ==
  BigAdd([i \in 1 .. Len(a) |-> (a[i] * k) % Base],
         <<0>> \o [i \in 1 .. Len(a) |-> (a[i] * k) \div Base])

RECURSIVE BigMul(_, _)
BigMul(a, b) ==
  IF a = <<>> \/ b = <<>> THEN <<>>
  ELSE BigAdd(BigMulSmall(a, Head(b)),
              IF Len(b) = 1 THEN <<>> ELSE <<0>> \o BigMul(a, Tail(b)))

\* a * 2^n
BigShiftLeft(a, n) ==
  IF a = <<>> THEN <<>>
  ELSE [i \in 1 .. (n \div 15) |-> 0] \o BigMulSmall(a, Pow2(n % 15))

\* floor(a / 2^n)
BigShiftRight(a, n) ==
  BigTrim([i \in 1 .. (Len(a) - (n \div 15)) |->
             (a[i + (n \div 15)] \div Pow2(n % 15))
               + (Limb(a, i + (n \div 15) + 1) % Pow2(n % 15))
                   * Pow2(15 - (n % 15))])

\* bit i of a, bit 0 the least significant
BigBit(a, i) == (Limb(a, (i \div 15) + 1) \div Pow2(i % 15)) % 2

\* an estimate of the quotient of r by d from their leading limbs, for
\* r < d * Base and a d whose leading limb is at least Base / 2: the
\* quotient, or 1 or 2 more
BigGuess(r, d) ==
  Min((Limb(r, Len(d) + 1) * Base + Limb(r, Len(d))) \div d[Len(d)], Base - 1)

\* the multiples q * d of d that do not exceed r, for q from guess - 2 to
\* guess
BigFits(r, d, guess) ==
  {c \in {[q |-> q, p |-> BigMulSmall(d, q)] : q \in Max(guess - 2, 0) .. guess} :
     ~BigLess(r, c.p)}

\* the largest of the multiples
BigLargest(fits) == CHOOSE c \in fits : \A o \in fits : o.q <= c.q

\* quotient and remainder of r by d, given the largest multiple of d in r
BigDivBy(r, c) == [q |-> c.q, r |-> BigSub(r, c.p)]

\* one limb of a quotient: the quotient and the remainder of r by d, for r
\* and d as in BigGuess
BigDivStep(r, d) == BigDivBy(r, BigLargest(BigFits(r, d, BigGuess(r, d))))

\* the quotient and remainder of the higher limbs of a dividend, continued by
\* the step made with its next limb
BigDivAppend(hi, step) == [q |-> <<step.q>> \o hi.q, r |-> step.r]

\* the quotient and remainder hi of the higher limbs, continued by the limb
\* low
BigDivLimb(low, hi, d) ==
  IF hi.r = <<>> /\ low = 0 THEN [q |-> <<0>> \o hi.q, r |-> <<>>]
  ELSE BigDivAppend(hi, BigDivStep(BigTrim(<<low>> \o hi.r), d))

\* quotient and remainder of n by d, for a d as in BigGuess: long division,
\* the limbs of n taken from the most significant one; the quotient may have
\* leading zero limbs
RECURSIVE BigDivLimbs(_, _)
BigDivLimbs(n, d) ==
  IF Len(n) < Len(d) THEN [q |-> <<>>, r |-> n]
  ELSE BigDivLimb(Head(n), BigDivLimbs(Tail(n), d), d)

\* the least shift of d, not less than least, after which the leading limb
\* of d is at least Base / 2
BigDivisorShift(d, least) == least + ((15 - ((BigBitLen(d) + least) % 15)) % 15)

\* quotient and remainder of n * 2^(s + shift) by d * 2^shift, for
\* s + shift >= 0: the quotient is floor(n * 2^s / d), the remainder is 0
\* when n * 2^s / d is an integer
BigDivShifted(n, d, s, shift) ==
  BigDivLimbs(BigShiftLeft(n, s + shift), BigShiftLeft(d, shift))

\* the quotient q of n by 2^k, and the remainder
BigShiftedOut(n, q, k) == [q |-> q, r |-> BigSub(n, BigShiftLeft(q, k))]

\* floor(n * 2^s / d) and a remainder, for d # 0
BigDivScaled(n, d, s) ==
  IF d = <<1>> /\ s >= 0 THEN [q |-> BigShiftLeft(n, s), r |-> <<>>]
  ELSE IF d = <<1>> THEN BigShiftedOut(n, BigShiftRight(n, 0 - s), 0 - s)
  ELSE BigDivShifted(n, d, s, BigDivisorShift(d, Max(0 - s, 0)))

(***************************************************************************)
(* The Number type: IEEE 754 binary64 with round-to-nearest, ties-to-even. *)
(* A finite number is (-1)^neg * man * 2^exp with man < 2^53, and          *)
(* 2^52 <= man unless the number is 0.  Subnormals and overflow are out    *)
(* of the range of the values computed here, and -0 is not told apart from *)
(* 0, as no comparison of the program does.  The other values a            *)
(* JavaScript expression of this program can have are records with other   *)
(* fields, so that no two of them are equal.                               *)
(***************************************************************************)

Zero == [neg |-> FALSE, man |-> <<>>, exp |-> 0]

NaN == [nan |-> TRUE]

Infinity(neg) == [neg |-> neg, infinite |-> TRUE]

undefined == [undefined |-> TRUE]

null == [null |-> TRUE]

IsFinite(v) == DOMAIN v = {"neg", "man", "exp"}

IsInfinite(v) == DOMAIN v = {"neg", "infinite"}

\* ToNumber of a number, of undefined and of a function object
ToNumber(v) == IF IsFinite(v) \/ IsInfinite(v) THEN v ELSE NaN

\* the s for which n * 2^s / d has 54 or 55 bits
Scale(n, d) == 54 - (BigBitLen(n) - BigBitLen(d))

\* whether q without its drop lowest bits is rounded up: more than half a
\* unit is dropped, or half a unit exactly (when nothing below q was
\* dropped: exact) and the bit kept last is 1
RoundsUp(q, drop, exact) ==
  \/ q[1] % Pow2(drop) > Pow2(drop - 1)
  \/ /\ q[1] % Pow2(drop) = Pow2(drop - 1)
     /\ (~exact \/ BigBit(q, drop) = 1)

\* q without its drop lowest bits, rounded to nearest, ties to even, for
\* drop in 1 .. 14
Nearest(q, drop, exact) ==
  BigAdd(BigShiftRight(q, drop),
         IF RoundsUp(q, drop, exact) THEN <<1>> ELSE <<>>)

\* the number with the significand m of 53 bits, or of 54 bits when the
\* rounding carried into a new bit
Normalize(neg, m, e) ==
  IF BigBitLen(m) = 54
  THEN [neg |-> neg, man |-> BigShiftRight(m, 1), exp |-> e + 1]
  ELSE [neg |-> neg, man |-> m, exp |-> e]

\* the double nearest to q * 2^e, or to a little more when exact is false,
\* for a q of 54 or 55 bits
RoundBits(neg, q, exact, e) ==
  Normalize(neg, Nearest(q, BigBitLen(q) - 53, exact), e + BigBitLen(q) - 53)

\* the double nearest to the quotient qr.q * 2^e of remainder qr.r
RoundQuotient(neg, qr, e) ==
  IF qr.r = <<>> THEN RoundBits(neg, BigTrim(qr.q), TRUE, e)
  ELSE RoundBits(neg, BigTrim(qr.q), FALSE, e)

\* the double nearest to n / d * 2^e, for naturals n and d > 0
RoundToDouble(neg, n, d, e) ==
  IF n = <<>> THEN Zero
  ELSE RoundQuotient(neg, BigDivScaled(n, d, Scale(n, d)), e - Scale(n, d))

\* the Number written as the decimal n / scale: a numeric literal of the
\* source, or what parseFloat makes of the digits typed
Decimal(n, scale) ==
  RoundToDouble(n < 0, BigFromNat(IF n < 0 THEN -n ELSE n),
                BigFromNat(scale), 0)

\* x * y for numbers x and y
TimesNumbers(x, y) ==
  IF x = NaN \/ y = NaN THEN NaN
  ELSE IF IsInfinite(x) \/ IsInfinite(y)
  THEN (IF x = Zero \/ y = Zero THEN NaN ELSE Infinity(x.neg # y.neg))
  ELSE RoundToDouble(x.neg # y.neg, BigMul(x.man, y.man), <<1>>,
                     x.exp + y.exp)

\* a * b
Times(a, b) == TimesNumbers(ToNumber(a), ToNumber(b))

\* x / y for numbers x and y
OverNumbers(x, y) ==
  IF x = NaN \/ y = NaN THEN NaN
  ELSE IF IsInfinite(x)
  THEN (IF IsInfinite(y) THEN NaN ELSE Infinity(x.neg # y.neg))
  ELSE IF IsInfinite(y) THEN Zero
  ELSE IF y = Zero
  THEN (IF x = Zero THEN NaN ELSE Infinity(x.neg # y.neg))
  ELSE RoundToDouble(x.neg # y.neg, x.man, y.man, x.exp - y.exp)

\* a / b
Over(a, b) == OverNumbers(ToNumber(a), ToNumber(b))

\* (-1)^xneg * x * 2^e + (-1)^yneg * y * 2^e for naturals x and y
AlignedPlus(xneg, x, yneg, y, e) ==
  RoundToDouble(IF xneg # yneg /\ BigLess(x, y) THEN yneg ELSE xneg,
                IF xneg = yneg THEN BigAdd(x, y)
                ELSE IF BigLess(x, y) THEN BigSub(y, x)
                ELSE BigSub(x, y),
                <<1>>, e)

\* a + b for finite a and b
FinitePlus(a, b) ==
  AlignedPlus(a.neg, BigShiftLeft(a.man, a.exp - Min(a.exp, b.exp)),
              b.neg, BigShiftLeft(b.man, b.exp - Min(a.exp, b.exp)),
              Min(a.exp, b.exp))

\* x + y for numbers x and y
PlusNumbers(x, y) ==
  IF x = NaN \/ y = NaN THEN NaN
  ELSE IF IsInfinite(x)
  THEN (IF IsInfinite(y) /\ x.neg # y.neg THEN NaN ELSE x)
  ELSE IF IsInfinite(y) THEN y
  ELSE FinitePlus(x, y)

\* a + b
Plus(a, b) == PlusNumbers(ToNumber(a), ToNumber(b))

\* -a
Negate(a) ==
  IF IsFinite(a) /\ a # Zero THEN [a EXCEPT !.neg = ~a.neg]
  ELSE IF IsInfinite(a) THEN Infinity(~a.neg)
  ELSE a

\* a - b
Minus(a, b) == Plus(a, Negate(ToNumber(b)))

\* a < 0
LessThanZero(a) == (IsFinite(a) \/ IsInfinite(a)) /\ a.neg /\ a # Zero

\* a rounding whose ties go to the integer of larger magnitude
RoundFractionAway(neg, whole, frac, halfway) ==
  (IF neg THEN -1 ELSE 1) * (IF BigLess(frac, halfway) THEN whole ELSE whole + 1)

\* floor(whole + frac / 2^sh + 1/2) with the sign neg put before whole and
\* frac: a tie goes to the larger integer
RoundFraction(neg, whole, frac, halfway) ==
  IF neg
  THEN (IF BigLess(halfway, frac) THEN -(whole + 1) ELSE -whole)
  ELSE (IF BigLess(frac, halfway) THEN whole ELSE whole + 1)

\* floor(a + 1/2) for a finite a whose integer part is whole
RoundAbove(a, whole) ==
  RoundFraction(a.neg, BigToNat(whole),
                BigSub(a.man, BigShiftLeft(whole, -a.exp)),
                BigShiftLeft(<<1>>, -a.exp - 1))

\* floor(a + 1/2) for a finite a, as an integer
RoundHalfUp(a) ==
  IF a.exp >= 0 THEN
    (IF a.neg THEN -1 ELSE 1) * BigToNat(BigShiftLeft(a.man, a.exp))
  ELSE RoundAbove(a, BigShiftRight(a.man, -a.exp))

\* Math.round(x) for a number x
RoundNumber(x) == IF IsFinite(x) THEN Decimal(RoundHalfUp(x), 1) ELSE x

\* Math.round(a)
MathRound(a) == RoundNumber(ToNumber(a))

(***************************************************************************)
(* routes-data.js: RoutesDB.routes                                         *)
(***************************************************************************)

routes ==
  <<
  \* Sao Paulo, SP -> Rio de Janeiro, RJ
  [origin |-> <<83,227,111,32,80,97,117,108,111,44,32,83,80>>,
   destination |-> <<82,105,111,32,100,101,32,74,97,110,101,105,114,111,44,32,82,74>>,
   distanceKm |-> 430],
  \* Sao Paulo, SP -> Brasilia, DF
  [origin |-> <<83,227,111,32,80,97,117,108,111,44,32,83,80>>,
   destination |-> <<66,114,97,115,237,108,105,97,44,32,68,70>>,
   distanceKm |-> 1015],
  \* Rio de Janeiro, RJ -> Brasilia, DF
  [origin |-> <<82,105,111,32,100,101,32,74,97,110,101,105,114,111,44,32,82,74>>,
   destination |-> <<66,114,97,115,237,108,105,97,44,32,68,70>>,
   distanceKm |-> 1148],
  \* Sao Paulo, SP -> Campinas, SP
  [origin |-> <<83,227,111,32,80,97,117,108,111,44,32,83,80>>,
   destination |-> <<67,97,109,112,105,110,97,115,44,32,83,80>>,
   distanceKm |-> 95],
  \* Rio de Janeiro, RJ -> Niteroi, RJ
  [origin |-> <<82,105,111,32,100,101,32,74,97,110,101,105,114,111,44,32,82,74>>,
   destination |-> <<78,105,116,101,114,243,105,44,32,82,74>>,
   distanceKm |-> 13],
  \* Belo Horizonte, MG -> Ouro Preto, MG
  [origin |-> <<66,101,108,111,32,72,111,114,105,122,111,110,116,101,44,32,77,71>>,
   destination |-> <<79,117,114,111,32,80,114,101,116,111,44,32,77,71>>,
   distanceKm |-> 100],
  \* Sao Paulo, SP -> Belo Horizonte, MG
  [origin |-> <<83,227,111,32,80,97,117,108,111,44,32,83,80>>,
   destination |-> <<66,101,108,111,32,72,111,114,105,122,111,110,116,101,44,32,77,71>>,
   distanceKm |-> 586],
  \* Rio de Janeiro, RJ -> Belo Horizonte, MG
  [origin |-> <<82,105,111,32,100,101,32,74,97,110,101,105,114,111,44,32,82,74>>,
   destination |-> <<66,101,108,111,32,72,111,114,105,122,111,110,116,101,44,32,77,71>>,
   distanceKm |-> 716],
  \* Sao Paulo, SP -> Sorocaba, SP
  [origin |-> <<83,227,111,32,80,97,117,108,111,44,32,83,80>>,
   destination |-> <<83,111,114,111,99,97,98,97,44,32,83,80>>,
   distanceKm |-> 108],
  \* Sao Paulo, SP -> Guarulhos, SP
  [origin |-> <<83,227,111,32,80,97,117,108,111,44,32,83,80>>,
   destination |-> <<71,117,97,114,117,108,104,111,115,44,32,83,80>>,
   distanceKm |-> 28],
  \* Manaus, AM -> Rio Branco, AC
  [origin |-> <<77,97,110,97,117,115,44,32,65,77>>,
   destination |-> <<82,105,111,32,66,114,97,110,99,111,44,32,65,67>>,
   distanceKm |-> 1800],
  \* Belem, PA -> Manaus, AM
  [origin |-> <<66,101,108,233,109,44,32,80,65>>,
   destination |-> <<77,97,110,97,117,115,44,32,65,77>>,
   distanceKm |-> 1665],
  \* Belem, PA -> Brasilia, DF
  [origin |-> <<66,101,108,233,109,44,32,80,65>>,
   destination |-> <<66,114,97,115,237,108,105,97,44,32,68,70>>,
   distanceKm |-> 1863],
  \* Manaus, AM -> Brasilia, DF
  [origin |-> <<77,97,110,97,117,115,44,32,65,77>>,
   destination |-> <<66,114,97,115,237,108,105,97,44,32,68,70>>,
   distanceKm |-> 2187],
  \* Salvador, BA -> Brasilia, DF
  [origin |-> <<83,97,108,118,97,100,111,114,44,32,66,65>>,
   destination |-> <<66,114,97,115,237,108,105,97,44,32,68,70>>,
   distanceKm |-> 1268],
  \* Recife, PE -> Salvador, BA
  [origin |-> <<82,101,99,105,102,101,44,32,80,69>>,
   destination |-> <<83,97,108,118,97,100,111,114,44,32,66,65>>,
   distanceKm |-> 766],
  \* Fortaleza, CE -> Brasilia, DF
  [origin |-> <<70,111,114,116,97,108,101,122,97,44,32,67,69>>,
   destination |-> <<66,114,97,115,237,108,105,97,44,32,68,70>>,
   distanceKm |-> 2145],
  \* Natal, RN -> Recife, PE
  [origin |-> <<78,97,116,97,108,44,32,82,78>>,
   destination |-> <<82,101,99,105,102,101,44,32,80,69>>,
   distanceKm |-> 299],
  \* Maceio, AL -> Recife, PE
  [origin |-> <<77,97,99,101,105,243,44,32,65,76>>,
   destination |-> <<82,101,99,105,102,101,44,32,80,69>>,
   distanceKm |-> 240],
  \* Sao Luis, MA -> Brasilia, DF
  [origin |-> <<83,227,111,32,76,117,237,115,44,32,77,65>>,
   destination |-> <<66,114,97,115,237,108,105,97,44,32,68,70>>,
   distanceKm |-> 2125],
  \* Teresina, PI -> Brasilia, DF
  [origin |-> <<84,101,114,101,115,105,110,97,44,32,80,73>>,
   destination |-> <<66,114,97,115,237,108,105,97,44,32,68,70>>,
   distanceKm |-> 1704],
  \* Curitiba, PR -> Brasilia, DF
  [origin |-> <<67,117,114,105,116,105,98,97,44,32,80,82>>,
   destination |-> <<66,114,97,115,237,108,105,97,44,32,68,70>>,
   distanceKm |-> 1110],
  \* Rio de Janeiro, RJ -> Curitiba, PR
  [origin |-> <<82,105,111,32,100,101,32,74,97,110,101,105,114,111,44,32,82,74>>,
   destination |-> <<67,117,114,105,116,105,98,97,44,32,80,82>>,
   distanceKm |-> 920],
  \* Sao Paulo, SP -> Curitiba, PR
  [origin |-> <<83,227,111,32,80,97,117,108,111,44,32,83,80>>,
   destination |-> <<67,117,114,105,116,105,98,97,44,32,80,82>>,
   distanceKm |-> 408],
  \* Porto Alegre, RS -> Curitiba, PR
  [origin |-> <<80,111,114,116,111,32,65,108,101,103,114,101,44,32,82,83>>,
   destination |-> <<67,117,114,105,116,105,98,97,44,32,80,82>>,
   distanceKm |-> 1090],
  \* Curitiba, PR -> Londrina, PR
  [origin |-> <<67,117,114,105,116,105,98,97,44,32,80,82>>,
   destination |-> <<76,111,110,100,114,105,110,97,44,32,80,82>>,
   distanceKm |-> 380],
  \* Brasilia, DF -> Porto Alegre, RS
  [origin |-> <<66,114,97,115,237,108,105,97,44,32,68,70>>,
   destination |-> <<80,111,114,116,111,32,65,108,101,103,114,101,44,32,82,83>>,
   distanceKm |-> 2020],
  \* Santa Maria, RS -> Porto Alegre, RS
  [origin |-> <<83,97,110,116,97,32,77,97,114,105,97,44,32,82,83>>,
   destination |-> <<80,111,114,116,111,32,65,108,101,103,114,101,44,32,82,83>>,
   distanceKm |-> 290],
  \* Florianopolis, SC -> Porto Alegre, RS
  [origin |-> <<70,108,111,114,105,97,110,243,112,111,108,105,115,44,32,83,67>>,
   destination |-> <<80,111,114,116,111,32,65,108,101,103,114,101,44,32,82,83>>,
   distanceKm |-> 640],
  \* Brasilia, DF -> Goiania, GO
  [origin |-> <<66,114,97,115,237,108,105,97,44,32,68,70>>,
   destination |-> <<71,111,105,226,110,105,97,44,32,71,79>>,
   distanceKm |-> 209],
  \* Brasilia, DF -> Cuiaba, MT
  [origin |-> <<66,114,97,115,237,108,105,97,44,32,68,70>>,
   destination |-> <<67,117,105,97,98,225,44,32,77,84>>,
   distanceKm |-> 925],
  \* Goiania, GO -> Sao Paulo, SP
  [origin |-> <<71,111,105,226,110,105,97,44,32,71,79>>,
   destination |-> <<83,227,111,32,80,97,117,108,111,44,32,83,80>>,
   distanceKm |-> 917],
  \* Campo Grande, MS -> Brasilia, DF
  [origin |-> <<67,97,109,112,111,32,71,114,97,110,100,101,44,32,77,83>>,
   destination |-> <<66,114,97,115,237,108,105,97,44,32,68,70>>,
   distanceKm |-> 1315],
  \* Cuiaba, MT -> Goiania, GO
  [origin |-> <<67,117,105,97,98,225,44,32,77,84>>,
   destination |-> <<71,111,105,226,110,105,97,44,32,71,79>>,
   distanceKm |-> 1070],
  \* Santos, SP -> Sao Paulo, SP
  [origin |-> <<83,97,110,116,111,115,44,32,83,80>>,
   destination |-> <<83,227,111,32,80,97,117,108,111,44,32,83,80>>,
   distanceKm |-> 72],
  \* Jundiai, SP -> Sao Paulo, SP
  [origin |-> <<74,117,110,100,105,97,237,44,32,83,80>>,
   destination |-> <<83,227,111,32,80,97,117,108,111,44,32,83,80>>,
   distanceKm |-> 60],
  \* Ribeirao Preto, SP -> Sao Paulo, SP
  [origin |-> <<82,105,98,101,105,114,227,111,32,80,114,101,116,111,44,32,83,80>>,
   destination |-> <<83,227,111,32,80,97,117,108,111,44,32,83,80>>,
   distanceKm |-> 310],
  \* Aracatuba, SP -> Sao Paulo, SP
  [origin |-> <<65,114,97,231,97,116,117,98,97,44,32,83,80>>,
   destination |-> <<83,227,111,32,80,97,117,108,111,44,32,83,80>>,
   distanceKm |-> 520],
  \* Vitoria, ES -> Rio de Janeiro, RJ
  [origin |-> <<86,105,116,243,114,105,97,44,32,69,83>>,
   destination |-> <<82,105,111,32,100,101,32,74,97,110,101,105,114,111,44,32,82,74>>,
   distanceKm |-> 521]
  >>

(***************************************************************************)
(* String.prototype.trim and String.prototype.toLowerCase                  *)
(***************************************************************************)

\* WhiteSpace and LineTerminator code units removed by trim()
WhiteSpace ==
  {9, 10, 11, 12, 13, 32, 160, 5760, 8232, 8233, 8239, 8287, 12288, 65279}
    \cup (8192 .. 8202)

RECURSIVE trimStart(_)
trimStart(s) ==
  IF s # <<>> /\ Head(s) \in WhiteSpace THEN trimStart(Tail(s)) ELSE s

RECURSIVE trimEnd(_)
trimEnd(s) ==
  IF s # <<>> /\ s[Len(s)] \in WhiteSpace
  THEN trimEnd(SubSeq(s, 1, Len(s) - 1))
  ELSE s

\* a trim that leaves the white space at the end
trimLeadingOnly(s) == trimStart(s)

trim(s) == trimEnd(trimStart(s))

\* lower-case mapping of one code unit (Basic Latin and Latin-1 letters)
toLowerCaseUnit(c) ==
  IF (c >= 65 /\ c <= 90) \/ (c >= 192 /\ c <= 222 /\ c # 215)
  THEN c + 32
  ELSE c

toLowerCase(s) == [i \in 1 .. Len(s) |-> toLowerCaseUnit(s[i])]

(***************************************************************************)
(* routes-data.js: RoutesDB.getAllCities                                   *)
(***************************************************************************)

\* the length of the longest common prefix of a and b
CommonPrefix(a, b) ==
  CHOOSE k \in 0 .. Min(Len(a), Len(b)) :
    /\ \A j \in 1 .. k : a[j] = b[j]
    /\ k < Min(Len(a), Len(b)) => a[k + 1] # b[k + 1]

\* a < b for strings whose first same code units are the same: by the code
\* units at the first place where a and b differ, a proper prefix before
\* the longer string
StringLessAfter(a, b, same) ==
  IF same = Len(b) THEN FALSE
  ELSE IF same = Len(a) THEN TRUE
  ELSE a[same + 1] < b[same + 1]

\* a < b in the order of the default comparator of sort()
StringLess(a, b) == StringLessAfter(a, b, CommonPrefix(a, b))

\* the names in the order forEach passes them to citiesSet.add
addedNames ==
  [k \in 1 .. 2 * Len(routes) |->
     IF k % 2 = 1 THEN routes[(k + 1) \div 2].origin
     ELSE routes[k \div 2].destination]

\* a Set that keeps every name added, repeated or not
citiesSetWithRepeats == addedNames

\* the places in names of the names that did not occur before
FirstAdded(names) ==
  {k \in 1 .. Len(names) : \A j \in 1 .. (k - 1) : names[j] # names[k]}

\* the elements of a Set in insertion order: the i-th element is the i-th
\* name that had not been added before, since add() of an element the Set
\* has changes nothing
SetElements(names, first) ==
  [i \in 1 .. Cardinality(first) |->
     names[CHOOSE k \in first : Cardinality({j \in first : j < k}) = i - 1]]

\* the Set after the forEach
citiesSet == SetElements(addedNames, FirstAdded(addedNames))

\* Array.prototype.sort() without a comparator: a stable sort, so the
\* element at k goes after the elements less than it and the equal
\* elements before k
sort(a) ==
  LET before(k) ==
        {j \in 1 .. Len(a) :
           StringLess(a[j], a[k]) \/ (a[j] = a[k] /\ j < k)}
  IN  [i \in 1 .. Len(a) |->
         a[CHOOSE k \in 1 .. Len(a) : Cardinality(before(k)) = i - 1]]

getAllCities == sort(citiesSet)

(***************************************************************************)
(* routes-data.js: RoutesDB.findDistance                                   *)
(***************************************************************************)

\* the least of a set of indices, 0 when there is none
FirstIndex(matching) ==
  IF matching = {} THEN 0
  ELSE CHOOSE i \in matching : \A j \in matching : i <= j

\* a find that also takes a route whose origin is equal to both names
findOriginTwice(routeOrigin, routeDestination) ==
  FirstIndex({i \in 1 .. Len(routes) :
                /\ toLowerCase(routes[i].origin) = routeOrigin
                /\ \/ toLowerCase(routes[i].destination) = routeDestination
                   \/ toLowerCase(routes[i].origin) = routeDestination})

\* this.routes.find(route => route.origin.toLowerCase() === routeOrigin &&
\* route.destination.toLowerCase() === routeDestination): the index of the
\* first such route, 0 when there is none (find returns undefined)
find(routeOrigin, routeDestination) ==
  FirstIndex({i \in 1 .. Len(routes) :
                /\ toLowerCase(routes[i].origin) = routeOrigin
                /\ toLowerCase(routes[i].destination) = routeDestination})

\* a route.distanceKm with its sign changed
routeDistanceNegated(route) == Decimal(0 - routes[route].distanceKm, 1)

\* the Number a route has as distanceKm
routeDistanceKm(route) == Decimal(routes[route].distanceKm, 1)

\* what findDistance returns for the routes found in the two directions
returnDistance(routeForward, routeReverse) ==
  IF routeForward # 0 THEN routeDistanceKm(routeForward)
  ELSE IF routeReverse # 0 THEN routeDistanceKm(routeReverse)
  ELSE null

\* findDistance after the two names are normalized
findRoutes(normalizedOrigin, normalizedDestination) ==
  returnDistance(find(normalizedOrigin, normalizedDestination),
                 find(normalizedDestination, normalizedOrigin))

\* a lookup in the direction the routes are stored only
findDistanceForward(origin, destination) ==
  returnDistance(find(toLowerCase(trim(origin)),
                      toLowerCase(trim(destination))), 0)

findDistance(origin, destination) ==
  findRoutes(toLowerCase(trim(origin)), toLowerCase(trim(destination)))

(***************************************************************************)
(* config.js: CONFIG.EMISSION_FACTORS                                      *)
(***************************************************************************)

\* the object literal: its own properties in the order they are written,
\* which is the order of Object.keys
EMISSION_FACTORS ==
  <<[key |-> "bicycle", value |-> Decimal(0, 1)],
    [key |-> "car", value |-> Decimal(12, 100)],
    [key |-> "plane", value |-> Decimal(20, 100)],
    [key |-> "boat", value |-> Decimal(15, 100)],
    [key |-> "bus", value |-> Decimal(89, 1000)],
    [key |-> "truck", value |-> Decimal(96, 100)]>>

\* Object.keys(object)
ObjectKeys(object) == [i \in 1 .. Len(object) |-> object[i].key]

\* the properties every object literal inherits from Object.prototype
ObjectPrototype ==
  {"constructor", "hasOwnProperty", "isPrototypeOf", "propertyIsEnumerable",
   "toLocaleString", "toString", "valueOf", "__proto__",
   "__defineGetter__", "__defineSetter__", "__lookupGetter__",
   "__lookupSetter__"}

\* object[key]: an own property, else a property of the prototype (a
\* function object), else undefined
GetProperty(object, key) ==
  IF \E i \in 1 .. Len(object) : object[i].key = key
  THEN object[CHOOSE i \in 1 .. Len(object) : object[i].key = key].value
  ELSE IF key \in ObjectPrototype THEN [function |-> key]
  ELSE undefined

\* the value null of a variable that otherwise holds a string; no transport
\* mode is called "null"
nullString == "null"

\* !s for a string or null
Not(s) == s = nullString \/ s = ""

(***************************************************************************)
(* calculator.js: Calculator.calculateEmission                             *)
(***************************************************************************)

\* Math.round(x * 100) / 100
roundToTwoDecimals(x) ==
  Over(MathRound(Times(x, Decimal(100, 1))), Decimal(100, 1))

\* calculateEmission once the factor is looked up
emissionWithFactor(distanceKm, emissionFactor) ==
  IF emissionFactor = undefined THEN Zero
  ELSE roundToTwoDecimals(Times(distanceKm, emissionFactor))

calculateEmission(distanceKm, transportMode) ==
  IF LessThanZero(distanceKm) \/ Not(transportMode) THEN Zero
  ELSE emissionWithFactor(distanceKm,
                          GetProperty(EMISSION_FACTORS, transportMode))

(***************************************************************************)
(* calculator.js: Calculator.calculateAllModes                             *)
(***************************************************************************)

\* an insertion that is not stable: x goes before the first element the
\* comparator does not put before it, elements of equal emission included
RECURSIVE InsertBeforeEqual(_, _)
InsertBeforeEqual(s, x) ==
  IF s = <<>> THEN <<x>>
  ELSE IF ~LessThanZero(Minus(Head(s).emission, x.emission)) THEN <<x>> \o s
  ELSE <<Head(s)>> \o InsertBeforeEqual(Tail(s), x)

\* results.sort((a, b) => a.emission - b.emission): a stable sort, here by
\* insertion of x before the first element the comparator puts after it
RECURSIVE InsertByEmission(_, _)
InsertByEmission(s, x) ==
  IF s = <<>> THEN <<x>>
  ELSE IF LessThanZero(Minus(x.emission, Head(s).emission)) THEN <<x>> \o s
  ELSE <<Head(s)>> \o InsertByEmission(Tail(s), x)

\* a sort that leaves the results in the order they were pushed
sortNothing(results) == results

RECURSIVE sortByEmission(_)
sortByEmission(results) ==
  IF results = <<>> THEN <<>>
  ELSE InsertByEmission(
         sortByEmission(SubSeq(results, 1, Len(results) - 1)),
         results[Len(results)])

\* a result whose percentage is the quotient, not multiplied by 100
resultAsQuotient(mode, emission, carEmission) ==
  [mode |-> mode,
   emission |-> emission,
   percentageVsCar |-> roundToTwoDecimals(Over(emission, carEmission))]

\* the object pushed to results for one mode
result(mode, emission, carEmission) ==
  [mode |-> mode,
   emission |-> emission,
   percentageVsCar |->
     roundToTwoDecimals(Times(Over(emission, carEmission), Decimal(100, 1)))]

\* results after Object.keys(CONFIG.EMISSION_FACTORS).forEach
forEach(keys, distanceKm, carEmission) ==
  [i \in 1 .. Len(keys) |->
     result(keys[i], calculateEmission(distanceKm, keys[i]), carEmission)]

\* calculateAllModes once the emission of the car is calculated
compareWithCar(distanceKm, carEmission) ==
  IF carEmission = Zero THEN <<>>
  ELSE sortByEmission(forEach(ObjectKeys(EMISSION_FACTORS), distanceKm,
                              carEmission))

\* calculateAllModes without the return for a car emission of 0
calculateAllModesUnguarded(distanceKm) ==
  sortByEmission(forEach(ObjectKeys(EMISSION_FACTORS), distanceKm,
                         calculateEmission(distanceKm, "car")))

calculateAllModes(distanceKm) ==
  compareWithCar(distanceKm, calculateEmission(distanceKm, "car"))

(***************************************************************************)
(* calculator.js: Calculator.calculateSavings                              *)
(***************************************************************************)

\* Math.round((savedKg / baselineEmission) * 10000) / 100
percentageOf(savedKg, baselineEmission) ==
  Over(MathRound(Times(Over(savedKg, baselineEmission), Decimal(10000, 1))),
       Decimal(100, 1))

\* the object returned once savedKg is calculated
savings(savedKg, baselineEmission) ==
  [savedKg |-> savedKg, percentage |-> percentageOf(savedKg, baselineEmission)]

\* calculateSavings without the return for a baseline of 0
calculateSavingsUnguarded(emission, baselineEmission) ==
  savings(roundToTwoDecimals(Minus(baselineEmission, emission)),
          baselineEmission)

calculateSavings(emission, baselineEmission) ==
  IF baselineEmission = Zero THEN [savedKg |-> Zero, percentage |-> Zero]
  ELSE savings(roundToTwoDecimals(Minus(baselineEmission, emission)),
               baselineEmission)

(***************************************************************************)
(* config.js: CONFIG.CARBON_CREDIT                                         *)
(***************************************************************************)

CARBON_CREDIT ==
  [KG_PER_CREDIT |-> Decimal(1000, 1),
   PRICE_MIN_BRL |-> Decimal(50, 1),
   PRICE_MAX_BRL |-> Decimal(150, 1)]

(***************************************************************************)
(* calculator.js: Calculator.calculateCarbonCredits                        *)
(***************************************************************************)

\* Math.round(x * 10000) / 10000
roundToFourDecimals(x) ==
  Over(MathRound(Times(x, Decimal(10000, 1))), Decimal(10000, 1))

\* calculateCarbonCredits without the return for a negative emission
calculateCarbonCreditsUnguarded(emissionKg) ==
  roundToFourDecimals(Over(emissionKg, CARBON_CREDIT.KG_PER_CREDIT))

calculateCarbonCredits(emissionKg) ==
  IF LessThanZero(emissionKg) THEN Zero
  ELSE roundToFourDecimals(Over(emissionKg, CARBON_CREDIT.KG_PER_CREDIT))

(***************************************************************************)
(* calculator.js: Calculator.estimateCreditPrice                           *)
(***************************************************************************)

\* the object returned once minPrice and maxPrice are calculated
prices(minPrice, maxPrice) ==
  [min |-> minPrice,
   max |-> maxPrice,
   average |->
     roundToTwoDecimals(Over(Plus(minPrice, maxPrice), Decimal(2, 1)))]

estimateCreditPrice(credits) ==
  IF LessThanZero(credits) THEN [min |-> Zero, max |-> Zero, average |-> Zero]
  ELSE prices(roundToTwoDecimals(Times(credits, CARBON_CREDIT.PRICE_MIN_BRL)),
              roundToTwoDecimals(Times(credits, CARBON_CREDIT.PRICE_MAX_BRL)))

(***************************************************************************)
(* parseFloat and isNaN                                                    *)
(***************************************************************************)

IsDigit(c) == c >= 48 /\ c <= 57

\* the number of decimal digits that s has from index i on
DigitsFrom(s, i) ==
  CHOOSE k \in 0 .. Len(s) :
    /\ \A j \in i .. i + k - 1 : j <= Len(s) /\ IsDigit(s[j])
    /\ i + k > Len(s) \/ ~IsDigit(s[i + k])

\* the value of a sequence of decimal digits
RECURSIVE DigitsValue(_)
DigitsValue(d) ==
  IF d = <<>> THEN 0
  ELSE 10 * DigitsValue(SubSeq(d, 1, Len(d) - 1)) + (d[Len(d)] - 48)

\* the number written by whole digits from index i on, a point and frac
\* digits; NaN when there is no digit at all
parseDigits(neg, s, i, whole, frac) ==
  IF whole + frac = 0 THEN NaN
  ELSE Decimal((IF neg THEN -1 ELSE 1)
                 * DigitsValue(SubSeq(s, i, i + whole - 1)
                                 \o SubSeq(s, i + whole + 1, i + whole + frac)),
               10 ^ frac)

\* the digits after the point, when a point follows the whole digits
parseUnsigned(neg, s, i, whole) ==
  parseDigits(neg, s, i, whole,
              IF i + whole <= Len(s) /\ s[i + whole] = 46
              THEN DigitsFrom(s, i + whole + 1)
              ELSE 0)

\* the sign, then the longest prefix that is a decimal literal
parseSigned(s) ==
  IF s # <<>> /\ s[1] \in {43, 45}
  THEN parseUnsigned(s[1] = 45, s, 2, DigitsFrom(s, 2))
  ELSE parseUnsigned(FALSE, s, 1, DigitsFrom(s, 1))

\* parseFloat(s) of a string without exponent part that does not spell
\* Infinity: leading white space is skipped, what follows the number is
\* ignored
parseFloat(s) == parseSigned(trimStart(s))

isNaN(v) == ToNumber(v) = NaN

(***************************************************************************)
(* ui.js: showElement, hideElement, showLoading, hideLoading, and the      *)
(* elements of the page they are used on                                   *)
(***************************************************************************)

\* the three result sections of the page, by id
Sections == {"results", "comparison", "carbon-credite"}

\* the markup of the submit button as the page is loaded
ButtonLabel == "Calcular"

\* document.getElementById(elementId) finds an element
HasElement(elementId) == elementId \in Sections

\* UI.showElement(elementId), on the set of the hidden elements
showElement(hiddenIds, elementId) ==
  IF HasElement(elementId) THEN hiddenIds \ {elementId} ELSE hiddenIds

\* UI.hideElement(elementId), on the set of the hidden elements
hideElement(hiddenIds, elementId) ==
  IF HasElement(elementId) THEN hiddenIds \cup {elementId} ELSE hiddenIds

\* a showLoading that leaves the button as enabled as it is
showLoadingEnabled(buttonElement) ==
  [disabled |-> buttonElement.disabled,
   innerHTML |-> "<span class=\"spinner\"></span> Calculando...",
   originalText |-> buttonElement.innerHTML]

\* UI.showLoading(buttonElement): the button is of the form, never missing
showLoading(buttonElement) ==
  [disabled |-> TRUE,
   innerHTML |-> "<span class=\"spinner\"></span> Calculando...",
   originalText |-> buttonElement.innerHTML]

\* a hideLoading that leaves the button disabled
hideLoadingDisabled(buttonElement) ==
  [disabled |-> buttonElement.disabled,
   innerHTML |-> IF buttonElement.originalText # ""
                 THEN buttonElement.originalText
                 ELSE buttonElement.innerHTML,
   originalText |-> buttonElement.originalText]

\* UI.hideLoading(buttonElement); originalText is "" while the button has
\* no such data attribute
hideLoading(buttonElement) ==
  [disabled |-> FALSE,
   innerHTML |-> IF buttonElement.originalText # ""
                 THEN buttonElement.originalText
                 ELSE buttonElement.innerHTML,
   originalText |-> buttonElement.originalText]

(***************************************************************************)
(* config.js: CONFIG.TRANSPORT_MODES, each mode with its colour            *)
(***************************************************************************)

TRANSPORT_MODES ==
  <<[key |-> "bicycle", value |-> [color |-> "#3b82f6"]],
    [key |-> "car", value |-> [color |-> "#ef4444"]],
    [key |-> "bus", value |-> [color |-> "#f59e0b"]],
    [key |-> "truck", value |-> [color |-> "#8b5cf6"]],
    [key |-> "plane", value |-> [color |-> "#0284c7"]],
    [key |-> "boat", value |-> [color |-> "#0ea5a4"]]>>

(***************************************************************************)
(* app.js: the submit handler of the calculator form                       *)
(***************************************************************************)

\* the constants the handler reads from the form; transport is the value of
\* the checked radio button, null when none is checked
formValues(form) ==
  [originValue |-> trim(form.origin),
   destinationValue |-> trim(form.destination),
   distanceValue |-> parseFloat(form.distance),
   transportMode |-> form.transport]

\* a validation that lets any number pass as the distance
validateAnyDistance(v) ==
  IF v.originValue = <<>> THEN "Por favor, selecione a cidade de origem"
  ELSE IF v.destinationValue = <<>> THEN "Por favor, selecione a cidade de destino"
  ELSE IF isNaN(v.distanceValue) THEN "Por favor, insira a distancia em quilometros"
  ELSE IF Not(v.transportMode) THEN "Por favor, selecione um modo de transporte"
  ELSE ""

\* the validation of the handler: the message of the alert it returns
\* after, "" when it goes on
validate(v) ==
  IF v.originValue = <<>> THEN "Por favor, selecione a cidade de origem"
  ELSE IF v.destinationValue = <<>> THEN "Por favor, selecione a cidade de destino"
  ELSE IF isNaN(v.distanceValue) THEN "Por favor, insira a distancia em quilometros"
  ELSE IF LessThanZero(v.distanceValue) \/ v.distanceValue = Zero
  THEN "A distancia deve ser maior que zero"
  ELSE IF Not(v.transportMode) THEN "Por favor, selecione um modo de transporte"
  ELSE ""

\* a handler that goes on after the alert instead of returning
handleNoReturn(form, v, message) ==
  /\ alertMessage' = (IF message # "" THEN message ELSE alertMessage)
  /\ submitButton' = showLoading(submitButton)
  /\ hidden' = hideElement(hideElement(hideElement(hidden, "results"),
                                       "comparison"),
                           "carbon-credite")
  /\ timers' = Append(timers, [form |-> form, submit |-> submits',
                               values |-> v])

\* the handler after its validation: the alert, or else the loading state,
\* the sections hidden, and the timer set with the closure of the handler
handle(form, v, message) ==
  IF message # ""
  THEN /\ alertMessage' = message
       /\ UNCHANGED <<submitButton, hidden, timers>>
  ELSE /\ submitButton' = showLoading(submitButton)
       /\ hidden' = hideElement(hideElement(hideElement(hidden, "results"),
                                            "comparison"),
                                "carbon-credite")
       /\ timers' = Append(timers, [form |-> form, submit |-> submits',
                                    values |-> v])
       /\ UNCHANGED alertMessage

\* the handler on the constants v it read from the form
onSubmit(form, v) == handle(form, v, validate(v))

\* the six Calculator calls of the timer callback, in the order it makes
\* them
calculatorCalls ==
  <<"calculateEmission", "calculateEmission", "calculateSavings",
    "calculateAllModes", "calculateCarbonCredits", "estimateCreditPrice">>

\* the calculations of the timer callback of the closure c
calculate(c) ==
  /\ distanceValue' = c.values.distanceValue
  /\ selectedMode' = c.values.transportMode
  /\ selectedModeEmission'
       = calculateEmission(c.values.distanceValue, c.values.transportMode)
  /\ savingsData'
       = calculateSavings(selectedModeEmission',
                          calculateEmission(c.values.distanceValue, "car"))
  /\ allModesComparison' = calculateAllModes(c.values.distanceValue)
  /\ creditsNeeded' = calculateCarbonCredits(selectedModeEmission')
  /\ priceEstimate' = estimateCreditPrice(creditsNeeded')
  /\ calls' = [i \in 1 .. Len(calculatorCalls) |->
                 [function |-> calculatorCalls[i], submit |-> c.submit,
                  form |-> c.form]]

\* resultsData, the comparison and creditsData as they are rendered
rendered(v) ==
  [results |-> [origin |-> v.originValue,
                destination |-> v.destinationValue,
                distance |-> v.distanceValue,
                emission |-> selectedModeEmission',
                mode |-> v.transportMode,
                savings |-> IF v.transportMode # "car" THEN savingsData'
                            ELSE null],
   comparison |-> [modesArray |-> allModesComparison',
                   selectedMode |-> v.transportMode],
   credits |-> [credits |-> creditsNeeded', price |-> priceEstimate']]

\* a try block that renders and shows whatever the mode is
renderUnchecked(v, modeData) ==
  /\ content' = rendered(v)
  /\ hidden' = showElement(showElement(showElement(hidden, "results"),
                                       "comparison"),
                           "carbon-credite")
  /\ submitButton' = hideLoading(submitButton)
  /\ UNCHANGED alertMessage

\* the rest of the try block, or the catch block when UI.renderResults
\* throws on a mode that CONFIG.TRANSPORT_MODES does not have
render(v, modeData) ==
  IF modeData = undefined
  THEN /\ alertMessage' = "Ocorreu um erro ao realizar o calculo. Por favor, tente novamente."
       /\ submitButton' = hideLoading(submitButton)
       /\ UNCHANGED <<content, hidden>>
  ELSE /\ content' = rendered(v)
       /\ hidden' = showElement(showElement(showElement(hidden, "results"),
                                            "comparison"),
                                "carbon-credite")
       /\ submitButton' = hideLoading(submitButton)
       /\ UNCHANGED alertMessage

\* the timer callback of the closure c
callback(c) ==
  /\ calculate(c)
  /\ render(c.values, GetProperty(TRANSPORT_MODES, c.values.transportMode))

(***************************************************************************)
(* config.js: CONFIG.setupDistanceAutofill, and the toggleDistanceInput    *)
(* listener of ui.js                                                       *)
(***************************************************************************)

\* the decimal digits of a natural number
RECURSIVE DigitsOf(_)
DigitsOf(n) ==
  IF n < 10 THEN <<48 + n>> ELSE DigitsOf(n \div 10) \o <<48 + (n % 10)>>

\* ToString of a Number that is a whole number >= 0, as the distances of
\* the catalog are
NumberToString(x) == DigitsOf(RoundHalfUp(x))

\* a fill that leaves the readonly attribute and the checkbox as they are
fillDistanceEditable(found) ==
  /\ distanceInput' = [distanceInput EXCEPT
                         !.value = IF found # null THEN NumberToString(found)
                                   ELSE <<>>]
  /\ UNCHANGED manualCheckbox
  /\ helperText' = [textContent |-> "Distancia preenchida automaticamente",
                    color |-> "#10b981"]

\* attemptFillDistance once findDistance has returned
fillDistance(found) ==
  IF found # null
  THEN /\ distanceInput' = [value |-> NumberToString(found),
                            readonly |-> TRUE]
       /\ manualCheckbox' = [checked |-> FALSE]
       /\ helperText' = [textContent |-> "Distancia preenchida automaticamente",
                         color |-> "#10b981"]
  ELSE /\ distanceInput' = [distanceInput EXCEPT !.value = <<>>]
       /\ UNCHANGED manualCheckbox
       /\ helperText' = [textContent |-> "Rota nao encontrada. Insira a distancia manualmente marcando a caixa abaixo.",
                         color |-> "#f59e0b"]

\* attemptFillDistance() on the trimmed values of the two fields
attemptFillDistance(origin, destination) ==
  IF origin # <<>> /\ destination # <<>>
  THEN fillDistance(findDistance(origin, destination))
  ELSE /\ distanceInput' = [value |-> <<>>, readonly |-> TRUE]
       /\ manualCheckbox' = [checked |-> FALSE]
       /\ helperText' = [textContent |-> "A distancia sera preenchida automaticamente",
                         color |-> "#6b7280"]

\* the change listener setupDistanceAutofill adds to the checkbox
manualCheckboxChange ==
  IF manualCheckbox.checked
  THEN /\ distanceInput' = [distanceInput EXCEPT !.readonly = FALSE]
       /\ UNCHANGED manualCheckbox
       /\ helperText' = [textContent |-> "Voce esta editando a distancia manualmente",
                         color |-> "#3b82f6"]
  ELSE attemptFillDistance(trim(originInput), trim(destinationInput))

\* a toggleDistanceInput that only clears the field of an unticked box
toggleDistanceInputEditable ==
  IF manualCheckbox.checked
  THEN distanceInput' = [distanceInput EXCEPT !.readonly = FALSE]
  ELSE distanceInput' = [distanceInput EXCEPT !.value = <<>>]

\* toggleDistanceInput(), the change listener ui.js adds to the checkbox
toggleDistanceInput ==
  IF manualCheckbox.checked
  THEN distanceInput' = [distanceInput EXCEPT !.readonly = FALSE]
  ELSE distanceInput' = [value |-> <<>>, readonly |-> TRUE]

(***************************************************************************)
(* The variables of the calls a client does not make                       *)
(***************************************************************************)

\* no call of findDistance or getAllCities was made
NoRoutes ==
  /\ cityA = <<>>
  /\ cityB = <<>>
  /\ originValue = <<>>
  /\ destinationValue = <<>>
  /\ distance = null
  /\ reference = null
  /\ cities = <<>>

\* no call of calculateEmission or calculateAllModes was made
NoEmission ==
  /\ typed = 0
  /\ distanceValue = Zero
  /\ selectedMode = nullString
  /\ selectedModeEmission = Zero
  /\ allModesComparison = <<>>

\* no call of calculateSavings was made
NoSavings ==
  /\ emissionArg = 0
  /\ baselineArg = 0
  /\ savingsData = undefined

\* no call of calculateCarbonCredits or estimateCreditPrice was made
NoCredits ==
  /\ emissionKgArg = 0
  /\ creditsNeeded = undefined
  /\ creditsArg = 0
  /\ priceEstimate = undefined

\* the page as it is loaded: nothing typed, no submit event yet, the result
\* sections hidden and empty
NoPage ==
  /\ fields = [origin |-> <<>>, destination |-> <<>>, distance |-> <<>>,
               transport |-> nullString]
  /\ submits = 0
  /\ submitButton = [disabled |-> FALSE, innerHTML |-> ButtonLabel,
                     originalText |-> ""]
  /\ hidden = Sections
  /\ timers = <<>>
  /\ calls = <<>>
  /\ content = undefined
  /\ alertMessage = ""

\* the form as the page is loaded: the fields empty, the distance field
\* readonly, the manual-distance checkbox unchecked
NoForm ==
  /\ originInput = <<>>
  /\ destinationInput = <<>>
  /\ distanceInput = [value |-> <<>>, readonly |-> TRUE]
  /\ manualCheckbox = [checked |-> FALSE]
  /\ helperText = [textContent |-> "A distancia sera preenchida automaticamente",
                   color |-> "#6b7280"]

(***************************************************************************)
(* A client of RoutesDB: it picks two place names, looks their distance up *)
(* as they are and then as a user may type them, and lists the cities.     *)
(***************************************************************************)

\* largest number of white space characters typed before or after a name
MaxPad == 1

\* the names that appear in the catalog
CatalogCities ==
  {routes[i].origin : i \in 1 .. Len(routes)}
    \cup {routes[i].destination : i \in 1 .. Len(routes)}

\* names the catalog does not have: "", "Lisboa", and "São Paulo" without
\* its state
OtherNames ==
  {<<>>,
   <<76, 105, 115, 98, 111, 97>>,
   <<83, 227, 111, 32, 80, 97, 117, 108, 111>>}

QueryNames == CatalogCities \cup OtherNames

\* upper-case mapping of one code unit (Basic Latin and Latin-1 letters)
toUpperCaseUnit(c) ==
  IF (c >= 97 /\ c <= 122) \/ (c >= 224 /\ c <= 254 /\ c # 247)
  THEN c - 32
  ELSE c

toUpperCase(s) == [i \in 1 .. Len(s) |-> toUpperCaseUnit(s[i])]

\* the ways a name is typed: letter case, and white space around it
Spellings ==
  {[case |-> c, lead |-> 0, trail |-> 0] : c \in {"same", "lower", "upper"}}
    \cup {[case |-> "same", lead |-> k, trail |-> 0] : k \in 1 .. MaxPad}
    \cup {[case |-> "same", lead |-> 0, trail |-> k] : k \in 1 .. MaxPad}
    \cup {[case |-> "upper", lead |-> k, trail |-> k] : k \in 1 .. MaxPad}

\* n white space characters: space, tab and no-break space in turn
Blank(n) == [i \in 1 .. n |-> <<32, 9, 160>>[(i % 3) + 1]]

Spell(v, s) ==
  Blank(v.lead)
    \o (CASE v.case = "lower" -> toLowerCase(s)
          [] v.case = "upper" -> toUpperCase(s)
          [] OTHER -> s)
    \o Blank(v.trail)

InitRoutesDB ==
  /\ pc = "start"
  /\ cityA \in QueryNames
  /\ cityB \in QueryNames
  /\ originValue = <<>>
  /\ destinationValue = <<>>
  /\ distance = null
  /\ reference = null
  /\ cities = <<>>
  /\ typed = 0
  /\ distanceValue = Zero
  /\ selectedMode = nullString
  /\ selectedModeEmission = Zero
  /\ allModesComparison = <<>>
  /\ NoSavings
  /\ NoCredits
  /\ NoPage
  /\ NoForm

\* RoutesDB.findDistance(cityA, cityB)
FindDistance ==
  /\ pc = "start"
  /\ pc' = "findDistance"
  /\ originValue' = cityA
  /\ destinationValue' = cityB
  /\ distance' = findDistance(cityA, cityB)
  /\ reference' = findDistance(cityA, cityB)
  /\ UNCHANGED <<cityA, cityB, cities>>
  /\ UNCHANGED <<calculatorVars, savingsVars, creditsVars, pageVars, formVars>>

\* RoutesDB.findDistance with the two names as typed
FindDistanceTyped(vo, vd) ==
  /\ pc = "findDistance"
  /\ pc' = "typed"
  /\ originValue' = Spell(vo, cityA)
  /\ destinationValue' = Spell(vd, cityB)
  /\ distance' = findDistance(Spell(vo, cityA), Spell(vd, cityB))
  /\ UNCHANGED <<cityA, cityB, reference, cities>>
  /\ UNCHANGED <<calculatorVars, savingsVars, creditsVars, pageVars, formVars>>

\* RoutesDB.getAllCities()
GetAllCities ==
  /\ pc = "start"
  /\ pc' = "getAllCities"
  /\ cities' = getAllCities
  /\ UNCHANGED <<cityA, cityB, originValue, destinationValue, distance, reference>>
  /\ UNCHANGED <<calculatorVars, savingsVars, creditsVars, pageVars, formVars>>

NextRoutesDB ==
  \/ FindDistance
  \/ \E vo \in Spellings, vd \in Spellings : FindDistanceTyped(vo, vd)
  \/ GetAllCities

SpecRoutesDB == InitRoutesDB /\ [][NextRoutesDB]_vars

(***************************************************************************)
(* A client of Calculator: it takes a distance as it is typed, with at     *)
(* most two decimals, and asks for the emission of one transport mode or   *)
(* for the comparison of all modes.                                        *)
(***************************************************************************)

\* the short distances typed go from -0.02 km to MaxShort / 100 km
MaxShort == 300

\* the distances typed, in hundredths of a kilometre: the short ones, and
\* 2.64, 5, 6.9, 13, 100, 430, 1250 and 2187 km
TypedDistances ==
  (-2 .. MaxShort) \cup {264, 500, 690, 1300, 10000, 43000, 125000, 218700}

\* the elements of an array
Elements(array) == {array[i] : i \in 1 .. Len(array)}

\* the transport modes asked for: the known ones, none, the empty string,
\* a mode the table does not have, and a name every object inherits
RequestedModes ==
  Elements(ObjectKeys(EMISSION_FACTORS))
    \cup {nullString, "", "train", "toString"}

InitCalculator ==
  /\ pc = "start"
  /\ typed \in TypedDistances
  /\ distanceValue = Decimal(typed, 100)
  /\ selectedMode = nullString
  /\ selectedModeEmission = Zero
  /\ allModesComparison = <<>>
  /\ cityA = <<>>
  /\ cityB = <<>>
  /\ originValue = <<>>
  /\ destinationValue = <<>>
  /\ distance = null
  /\ reference = null
  /\ cities = <<>>
  /\ NoSavings
  /\ NoCredits
  /\ NoPage
  /\ NoForm

\* Calculator.calculateEmission(distanceValue, mode)
CalculateEmission(mode) ==
  /\ pc = "start"
  /\ pc' = "calculateEmission"
  /\ selectedMode' = mode
  /\ selectedModeEmission' = calculateEmission(distanceValue, mode)
  /\ UNCHANGED <<typed, distanceValue, allModesComparison>>
  /\ UNCHANGED <<routesVars, savingsVars, creditsVars, pageVars, formVars>>

\* Calculator.calculateAllModes(distanceValue)
CalculateAllModes ==
  /\ pc = "start"
  /\ pc' = "calculateAllModes"
  /\ allModesComparison' = calculateAllModes(distanceValue)
  /\ UNCHANGED <<typed, distanceValue, selectedMode, selectedModeEmission>>
  /\ UNCHANGED <<routesVars, savingsVars, creditsVars, pageVars, formVars>>

NextCalculator ==
  \/ \E mode \in RequestedModes : CalculateEmission(mode)
  \/ CalculateAllModes

SpecCalculator == InitCalculator /\ [][NextCalculator]_vars

(***************************************************************************)
(* A client of Calculator.calculateSavings: it passes an emission and a    *)
(* baseline of at most three decimals, negative ones included.             *)
(***************************************************************************)

\* the small amounts passed go from -MaxSaving / 1000 kg to MaxSaving / 1000 kg
MaxSaving == 12

\* the amounts passed, in thousandths of a kilogram: the small ones, and
\* 0.156, 0.32, 0.33, 0.5, 0.625, 2.53, 8.9 and 12 kg
SavingsAmounts ==
  (-MaxSaving .. MaxSaving) \cup {156, 320, 330, 500, 625, 2530, 8900, 12000}

InitSavings ==
  /\ pc = "start"
  /\ NoSavings
  /\ NoRoutes
  /\ NoEmission
  /\ NoCredits
  /\ NoPage
  /\ NoForm

\* Calculator.calculateSavings(e / 1000, b / 1000)
CalculateSavings(e, b) ==
  /\ pc = "start"
  /\ pc' = "calculateSavings"
  /\ emissionArg' = e
  /\ baselineArg' = b
  /\ savingsData' = calculateSavings(Decimal(e, 1000), Decimal(b, 1000))
  /\ UNCHANGED <<routesVars, calculatorVars, creditsVars, pageVars, formVars>>

NextSavings == \E e \in SavingsAmounts, b \in SavingsAmounts : CalculateSavings(e, b)

SpecSavings == InitSavings /\ [][NextSavings]_vars

(***************************************************************************)
(* A client of the credit functions of Calculator: it passes an emission   *)
(* of at most two decimals to calculateCarbonCredits, or a number of       *)
(* credits of at most four decimals to estimateCreditPrice.                *)
(***************************************************************************)

\* the small emissions passed go from -0.02 kg to MaxEmissionKg / 100 kg
MaxEmissionKg == 80

\* the emissions passed, in hundredths of a kilogram: the small ones, and
\* -1250, 10.75, 31.5 and 1250 kg
EmissionsKg == (-2 .. MaxEmissionKg) \cup {-125000, 1075, 3150, 125000}

\* the small numbers of credits passed go from -0.0002 to MaxCredits / 10000
MaxCredits == 80

\* the numbers of credits passed, in ten-thousandths: the small ones, and
\* -1.25, 0.0315, 0.0439 and 1.25
CreditAmounts == (-2 .. MaxCredits) \cup {-12500, 315, 439, 12500}

InitCredits ==
  /\ pc = "start"
  /\ NoCredits
  /\ NoRoutes
  /\ NoEmission
  /\ NoSavings
  /\ NoPage
  /\ NoForm

\* Calculator.calculateCarbonCredits(e / 100)
CalculateCarbonCredits(e) ==
  /\ pc = "start"
  /\ pc' = "calculateCarbonCredits"
  /\ emissionKgArg' = e
  /\ creditsNeeded' = calculateCarbonCredits(Decimal(e, 100))
  /\ UNCHANGED <<creditsArg, priceEstimate>>
  /\ UNCHANGED <<routesVars, calculatorVars, savingsVars, pageVars, formVars>>

\* Calculator.estimateCreditPrice(c / 10000)
EstimateCreditPrice(c) ==
  /\ pc = "start"
  /\ pc' = "estimateCreditPrice"
  /\ creditsArg' = c
  /\ priceEstimate' = estimateCreditPrice(Decimal(c, 10000))
  /\ UNCHANGED <<emissionKgArg, creditsNeeded>>
  /\ UNCHANGED <<routesVars, calculatorVars, savingsVars, pageVars, formVars>>

NextCredits ==
  \/ \E e \in EmissionsKg : CalculateCarbonCredits(e)
  \/ \E c \in CreditAmounts : EstimateCreditPrice(c)

SpecCredits == InitCredits /\ [][NextCredits]_vars

(***************************************************************************)
(* The page: the user fills the form in and submits it, and the timers set *)
(* by the submit handler fire, oldest first.                               *)
(***************************************************************************)

\* largest number of submit events
MaxSubmits == 2

\* what the user leaves in the origin field: nothing, white space, or a
\* name between spaces
Origins == {<<>>, <<32, 9>>, <<32>> \o routes[1].origin \o <<32>>}

\* what the user leaves in the destination field: nothing, or a name
Destinations == {<<>>, routes[1].destination}

\* what the user leaves in the distance field: "", "abc", "0", "-5", "430",
\* "12.5", "0.04" and " 7km"
Distances ==
  {<<>>, <<97, 98, 99>>, <<48>>, <<45, 53>>, <<52, 51, 48>>,
   <<49, 50, 46, 53>>, <<48, 46, 48, 52>>, <<32, 55, 107, 109>>}

\* the radio buttons of the transport modes, by value: two modes of the
\* tables of CONFIG, and one that the tables do not have
TransportRadios == {"car", "bus", "train"}

\* the forms submitted
Forms ==
  [origin : Origins, destination : Destinations, distance : Distances,
   transport : TransportRadios \cup {nullString}]

InitPage ==
  /\ pc = "page"
  /\ NoPage
  /\ NoForm
  /\ NoRoutes
  /\ NoEmission
  /\ NoSavings
  /\ NoCredits

\* a submit event comes only while the submit button of the form is enabled
CanSubmit == ~submitButton.disabled

\* the user leaves form in the fields and submits: the submit handler
Submit(form) ==
  /\ pc = "page"
  /\ submits < MaxSubmits
  /\ CanSubmit
  /\ fields' = form
  /\ submits' = submits + 1
  /\ onSubmit(form, formValues(form))
  /\ UNCHANGED <<calls, content>>
  /\ UNCHANGED <<pc, routesVars, calculatorVars, savingsVars, creditsVars,
                 formVars>>

\* the oldest timer fires: its callback
TimerFire ==
  /\ pc = "page"
  /\ timers # <<>>
  /\ timers' = Tail(timers)
  /\ callback(Head(timers))
  /\ UNCHANGED <<fields, submits>>
  /\ UNCHANGED <<pc, routesVars, typed, emissionArg, baselineArg,
                 emissionKgArg, creditsArg, formVars>>

NextPage ==
  \/ \E form \in Forms : Submit(form)
  \/ TimerFire

SpecPage == InitPage /\ [][NextPage]_vars

\* the oldest timer leaves the pending ones: in SpecPage, a TimerFire step
TimerDue == timers # <<>> /\ timers' = Tail(timers)

\* the event loop runs the callback of a timer that is due
SpecPageFair == SpecPage /\ WF_timers(TimerDue)

(***************************************************************************)
(* The form: the user changes the origin and the destination, ticks and    *)
(* unticks the manual-distance checkbox, and types a distance while the    *)
(* field is not readonly.  A change event of the checkbox runs its two     *)
(* listeners in the order they were added: toggleDistanceInput, added by   *)
(* ui.js, then the listener of setupDistanceAutofill, added by app.js.     *)
(***************************************************************************)

\* the two listeners in the other order
ChangeListenersReversed == <<"manualCheckboxChange", "toggleDistanceInput">>

\* the change listeners of the checkbox, in the order they were added
ChangeListeners == <<"toggleDistanceInput", "manualCheckboxChange">>

\* what runs after the listener at place i: the next one, or the change
\* event is handled
AfterListener(i) ==
  IF i < Len(ChangeListeners) THEN ChangeListeners[i + 1] ELSE "changed"

\* no listener is running: the form waits for the user, as loaded or
\* after an event of a field, or after a change event of the checkbox
Waiting == pc \in {"form", "changed"}

\* the place of a listener in the order
ListenerPlace(name) ==
  CHOOSE i \in 1 .. Len(ChangeListeners) : ChangeListeners[i] = name

\* the names the user leaves in a field: none, a space, "Sao Paulo, SP",
\* "RIO DE JANEIRO, RJ" after a space, and "Campinas, SP"
TypedNames ==
  {<<>>, <<32>>, routes[1].origin,
   <<32>> \o toUpperCase(routes[1].destination), routes[4].destination}

\* the distances the user types: "430" and "7.5"
TypedValues == {<<52, 51, 48>>, <<55, 46, 53>>}

InitForm ==
  /\ pc = "form"
  /\ NoForm
  /\ NoPage
  /\ NoRoutes
  /\ NoEmission
  /\ NoSavings
  /\ NoCredits

\* the user leaves name in the origin field: its change listener
ChangeOrigin(name) ==
  /\ Waiting
  /\ pc' = "form"
  /\ name # originInput
  /\ originInput' = name
  /\ attemptFillDistance(trim(name), trim(destinationInput))
  /\ UNCHANGED destinationInput
  /\ UNCHANGED <<routesVars, calculatorVars, savingsVars, creditsVars, pageVars>>

\* the user leaves name in the destination field: its change listener
ChangeDestination(name) ==
  /\ Waiting
  /\ pc' = "form"
  /\ name # destinationInput
  /\ destinationInput' = name
  /\ attemptFillDistance(trim(originInput), trim(name))
  /\ UNCHANGED originInput
  /\ UNCHANGED <<routesVars, calculatorVars, savingsVars, creditsVars, pageVars>>

\* the user types a distance, which a readonly field does not let them do
TypeDistance(value) ==
  /\ Waiting
  /\ pc' = "form"
  /\ ~distanceInput.readonly
  /\ distanceInput' = [distanceInput EXCEPT !.value = value]
  /\ UNCHANGED <<originInput, destinationInput, manualCheckbox, helperText>>
  /\ UNCHANGED <<routesVars, calculatorVars, savingsVars, creditsVars, pageVars>>

\* the user clicks the checkbox: its state changes and a change event is
\* sent to its listeners
ClickManual ==
  /\ Waiting
  /\ pc' = ChangeListeners[1]
  /\ manualCheckbox' = [checked |-> ~manualCheckbox.checked]
  /\ UNCHANGED <<originInput, destinationInput, distanceInput, helperText>>
  /\ UNCHANGED <<routesVars, calculatorVars, savingsVars, creditsVars, pageVars>>

\* the change event reaches the listener of ui.js
ToggleDistanceInput ==
  /\ pc = "toggleDistanceInput"
  /\ pc' = AfterListener(ListenerPlace("toggleDistanceInput"))
  /\ toggleDistanceInput
  /\ UNCHANGED <<originInput, destinationInput, manualCheckbox, helperText>>
  /\ UNCHANGED <<routesVars, calculatorVars, savingsVars, creditsVars, pageVars>>

\* the change event reaches the listener of setupDistanceAutofill
ManualCheckboxChange ==
  /\ pc = "manualCheckboxChange"
  /\ pc' = AfterListener(ListenerPlace("manualCheckboxChange"))
  /\ manualCheckboxChange
  /\ UNCHANGED <<originInput, destinationInput>>
  /\ UNCHANGED <<routesVars, calculatorVars, savingsVars, creditsVars, pageVars>>

NextForm ==
  \/ \E name \in TypedNames : ChangeOrigin(name)
  \/ \E name \in TypedNames : ChangeDestination(name)
  \/ \E value \in TypedValues : TypeDistance(value)
  \/ ClickManual
  \/ ToggleDistanceInput
  \/ ManualCheckboxChange

SpecForm == InitForm /\ [][NextForm]_vars

(***************************************************************************)
(* Properties of RoutesDB                                                  *)
(***************************************************************************)

\* C1: findDistance is symmetric over the catalog: for every stored route
\* (a, b, d), findDistance(a, b) and findDistance(b, a) both return d.
C1_Symmetric ==
  pc = "findDistance" =>
    \A i \in 1 .. Len(routes) :
      \/ originValue = routes[i].origin /\ destinationValue = routes[i].destination
      \/ originValue = routes[i].destination /\ destinationValue = routes[i].origin
      => distance = routeDistanceKm(i)

\* a stored route was looked up from its destination to its origin
C1_Witness ==
  /\ pc = "findDistance"
  /\ \E i \in 1 .. Len(routes) :
       /\ originValue = routes[i].destination
       /\ destinationValue = routes[i].origin
       /\ distance = routeDistanceKm(i)

\* C2: findDistance is case- and whitespace-insensitive: white space around
\* either argument, or another letter case of either argument, does not
\* change the result (the distance found, or not found).
C2_CaseAndSpaceInsensitive ==
  pc = "typed" => distance = reference

\* both names were typed differently and the route was still found
C2_Witness ==
  /\ pc = "typed"
  /\ originValue # cityA
  /\ destinationValue # cityB
  /\ Len(originValue) > Len(cityA)
  /\ distance # null

\* the routes that connect the trimmed, lower-cased names a and b, in
\* either direction
Connecting(a, b) ==
  {i \in 1 .. Len(routes) :
     LET ro == toLowerCase(routes[i].origin)
         rd == toLowerCase(routes[i].destination)
     IN  \/ ro = toLowerCase(trim(a)) /\ rd = toLowerCase(trim(b))
         \/ ro = toLowerCase(trim(b)) /\ rd = toLowerCase(trim(a))}

\* C3: findDistance(a, b) returns null exactly when no stored route connects
\* the normalized names in either direction, and that route's distance
\* otherwise; two identical names and two catalog cities without a direct
\* route give null.
C3_NullIffNoRoute ==
  pc \in {"findDistance", "typed"} =>
    /\ distance = null <=> Connecting(originValue, destinationValue) = {}
    /\ distance # null =>
         \E i \in Connecting(originValue, destinationValue) :
           distance = routeDistanceKm(i)
    /\ originValue = destinationValue => distance = null

\* two different catalog cities without a direct route were looked up
C3_Witness ==
  /\ pc = "findDistance"
  /\ originValue \in CatalogCities
  /\ destinationValue \in CatalogCities
  /\ originValue # destinationValue
  /\ Connecting(originValue, destinationValue) = {}
  /\ distance = null

\* a comes strictly before b in lexicographic order of code units
LexBefore(a, b) ==
  \E k \in 1 .. Len(b) :
    /\ \A j \in 1 .. (k - 1) : j <= Len(a) /\ a[j] = b[j]
    /\ \/ k = Len(a) + 1
       \/ k <= Len(a) /\ a[k] < b[k]

FactorWritten ==
  [bicycle |-> <<0, 1>>, car |-> <<12, 100>>, plane |-> <<20, 100>>,
   boat |-> <<15, 100>>, bus |-> <<89, 1000>>, truck |-> <<96, 100>>]

KnownModes == DOMAIN FactorWritten

\* n / d rounded to the nearest integer, half up, for d > 0
RoundDiv(n, d) == (n \div d) + (IF 2 * (n % d) >= d THEN 1 ELSE 0)

\* n / d * 2^e rounded to the nearest integer, half up, for naturals of any
\* size n and d > 0
BigRoundDiv(n, d, e) ==
  LET num == IF e >= 0 THEN BigShiftLeft(n, e) ELSE n
      den == IF e >= 0 THEN d ELSE BigShiftLeft(d, -e)
  IN  BigToNat(BigTrim(BigDivScaled(BigAdd(BigAdd(num, num), den),
                                     BigAdd(den, den), 0).q))

\* distance * factor in hundredths of a kilogram, rounded half up, taking
\* the distance and the factor as the decimals that are written
EmissionOfDecimals(n, mode) ==
  RoundDiv(n * FactorWritten[mode][1], FactorWritten[mode][2])

\* the same, taking the distance and the factor as the Numbers they are
\* stored as (the stored 0.089 is not exactly 89/1000)
EmissionOfNumbers(d, mode) ==
  LET f == GetProperty(EMISSION_FACTORS, mode)
  IN  BigRoundDiv(BigMulSmall(BigMul(d.man, f.man), 100), <<1>>,
                  d.exp + f.exp)

\* C5: for every known transport mode m and every distance d >= 0,
\* calculateEmission(d, m) equals d * EMISSION_FACTORS[m] rounded to 2
\* decimals; it is 12 for (100, car), 8.9 for (100, bus) and 0 for bicycle.
\* The product is accepted in either reading, of the decimals written or of
\* the Numbers stored.
C5_EmissionIsRoundedProduct ==
  (pc = "calculateEmission" /\ selectedMode \in KnownModes /\ typed >= 0) =>
    /\ \/ selectedModeEmission = Decimal(EmissionOfDecimals(typed, selectedMode), 100)
       \/ selectedModeEmission = Decimal(EmissionOfNumbers(distanceValue, selectedMode), 100)
    /\ (typed = 10000 /\ selectedMode = "car") => selectedModeEmission = Decimal(12, 1)
    /\ (typed = 10000 /\ selectedMode = "bus") => selectedModeEmission = Decimal(89, 10)
    /\ selectedMode = "bicycle" => selectedModeEmission = Zero

\* C6: calculateEmission fails open to zero: for every negative distance,
\* and for every mode that is not a known transport mode (a missing or
\* empty mode included), it returns 0.
C6_FailsOpenToZero ==
  (pc = "calculateEmission"
     /\ (typed < 0 \/ selectedMode \notin KnownModes)) =>
    selectedModeEmission = Zero

\* C7: calculateAllModes(0) returns the empty sequence, and no call divides
\* by a zero car baseline: every entry of every result has a finite
\* percentageVsCar.
C7_NoDivisionByZeroBaseline ==
  pc = "calculateAllModes" =>
    /\ typed = 0 => allModesComparison = <<>>
    /\ \A i \in 1 .. Len(allModesComparison) : IsFinite(allModesComparison[i].percentageVsCar)

\* the comparison of all modes was asked for a distance of 0 km
C7_Witness ==
  /\ pc = "calculateAllModes"
  /\ typed = 0
  /\ allModesComparison = <<>>

\* C8: the car baseline is 0 only when the distance is 0: for every
\* distance > 0 the baseline is not 0 and the comparison is not empty.
C8_BaselineZeroOnlyAtZero ==
  (pc = "calculateAllModes" /\ typed > 0) =>
    /\ calculateEmission(distanceValue, "car") # Zero
    /\ allModesComparison # <<>>

\* place of a mode in the emission-factor table
TableIndex(mode) ==
  CHOOSE i \in 1 .. Len(EMISSION_FACTORS) : EMISSION_FACTORS[i].key = mode

\* a <= b for finite Numbers
NotGreater(a, b) == ~LessThanZero(Minus(b, a))

\* C9: whenever the car baseline is not 0, calculateAllModes(d) has exactly
\* one entry for each known transport mode, each with calculateEmission(d,
\* mode), in order of non-decreasing emission, entries of equal emission in
\* the order of the emission-factor table.
C9_OneEntryPerModeSortedStable ==
  (pc = "calculateAllModes" /\ calculateEmission(distanceValue, "car") # Zero) =>
    /\ Len(allModesComparison) = Cardinality(KnownModes)
    /\ {allModesComparison[i].mode : i \in 1 .. Len(allModesComparison)} = KnownModes
    /\ \A i \in 1 .. Len(allModesComparison) :
         allModesComparison[i].emission
           = calculateEmission(distanceValue, allModesComparison[i].mode)
    /\ \A i, j \in 1 .. Len(allModesComparison) :
         i < j =>
           /\ NotGreater(allModesComparison[i].emission, allModesComparison[j].emission)
           /\ allModesComparison[i].emission = allModesComparison[j].emission =>
                TableIndex(allModesComparison[i].mode) < TableIndex(allModesComparison[j].mode)

\* a comparison in which two modes other than the bicycle have the same
\* emission
C9_Witness ==
  /\ pc = "calculateAllModes"
  /\ \E i \in 1 .. (Len(allModesComparison) - 1) :
       /\ allModesComparison[i].emission # Zero
       /\ allModesComparison[i].emission = allModesComparison[i + 1].emission

\* the hundredths of a Number that is a multiple of 0.01
Hundredths(x) == RoundHalfUp(Times(x, Decimal(100, 1)))

C11_ZeroBaselineGivesZero ==
  (pc = "calculateSavings" /\ baselineArg = 0) =>
    savingsData = [savedKg |-> Zero, percentage |-> Zero]

\* the savings of an emission of 8.9 kg against a baseline of 0 were asked
C11_Witness ==
  /\ pc = "calculateSavings"
  /\ baselineArg = 0
  /\ emissionArg = 8900
  /\ savingsData.percentage = Zero

\* the integers n / d may be rounded to, for d > 0: the nearest one, the
\* larger one at a tie of a positive quotient, either one at a tie of a
\* negative quotient
RoundDivs(n, d) ==
  {RoundDiv(n, d)} \cup (IF n < 0 /\ 2 * (n % d) = d THEN {n \div d} ELSE {})

\* n / d * 2^e rounded to the nearest integer, half down, for naturals of
\* any size n and d > 0
BigRoundDivDown(n, d, e) ==
  LET num == IF e >= 0 THEN BigShiftLeft(n, e) ELSE n
      den == IF e >= 0 THEN d ELSE BigShiftLeft(d, -e)
  IN  IF num = <<>> THEN 0
      ELSE BigToNat(BigTrim(BigDivScaled(
             BigSub(BigAdd(BigAdd(num, num), den), <<1>>),
             BigAdd(den, den), 0).q))

\* the integers (-1)^neg * n / d * 2^e may be rounded to, in the same way
BigRoundDivs(neg, n, d, e) ==
  IF neg /\ n # <<>>
  THEN {-BigRoundDiv(n, d, e), -BigRoundDivDown(n, d, e)}
  ELSE {BigRoundDiv(n, d, e)}

\* x - y without rounding, for finite x and y: its sign, and its magnitude
\* as mag * 2^exp
ExactMinus(x, y) ==
  LET m == Min(x.exp, y.exp)
      X == BigShiftLeft(x.man, x.exp - m)
      Y == BigShiftLeft(y.man, y.exp - m)
  IN  IF x.neg # y.neg THEN [neg |-> x.neg, mag |-> BigAdd(X, Y), exp |-> m]
      ELSE IF BigLess(X, Y) THEN [neg |-> ~x.neg, mag |-> BigSub(Y, X), exp |-> m]
      ELSE [neg |-> x.neg, mag |-> BigSub(X, Y), exp |-> m]

\* the values of savedKg the claim allows, the emission and the baseline
\* taken as the decimals passed or as the Numbers stored
SavedKgAllowed ==
  LET d == ExactMinus(Decimal(baselineArg, 1000), Decimal(emissionArg, 1000))
  IN  {Decimal(k, 100) : k \in RoundDivs(baselineArg - emissionArg, 10)}
        \cup {Decimal(k, 100) :
                 k \in BigRoundDivs(d.neg, BigMulSmall(d.mag, 100), <<1>>, d.exp)}

\* the values of percentage the claim allows for the savedKg returned,
\* savedKg and the baseline taken as decimals or as the Numbers stored
PercentageAllowed ==
  LET s == savingsData.savedKg
      b == Decimal(baselineArg, 1000)
      sign == IF baselineArg < 0 THEN -1 ELSE 1
  IN  {Decimal(k, 100) :
         k \in RoundDivs(sign * Hundredths(s) * 100000, sign * baselineArg)}
        \cup {Decimal(k, 100) :
                 k \in BigRoundDivs(s.neg # b.neg, BigMulSmall(s.man, 10000),
                                    b.man, s.exp - b.exp)}

\* C12: for every baseline other than 0, calculateSavings(emission,
\* baseline) returns savedKg = (baseline - emission) rounded to 2 decimals
\* and percentage = (savedKg / baseline) * 100 rounded to 2 decimals, from
\* the savedKg already rounded; negative values are returned as they are;
\* calculateSavings(8.9, 12) gives 3.1 and 25.83.  The difference and the
\* quotient are accepted in either reading, of the decimals passed or of
\* the Numbers stored, and a negative tie rounded either way.
C12_SavingsRounded ==
  (pc = "calculateSavings" /\ baselineArg # 0) =>
    /\ savingsData.savedKg \in SavedKgAllowed
    /\ savingsData.percentage \in PercentageAllowed
    /\ (emissionArg = 8900 /\ baselineArg = 12000) =>
         savingsData = [savedKg |-> Decimal(31, 10),
                        percentage |-> Decimal(2583, 100)]

\* the natural numbers w with |x| * k = w + 1/2 exactly, for a finite x and
\* a k below 2^15: one number when x * k is a tie of Math.round, else none
TieWhole(x, k) ==
  IF ~IsFinite(x) \/ x.exp >= 0 THEN {}
  ELSE LET m == BigMulSmall(x.man, k)
           whole == BigShiftRight(m, -x.exp)
       IN  IF BigSub(m, BigShiftLeft(whole, -x.exp))
                = BigShiftLeft(<<1>>, -x.exp - 1)
           THEN {BigToNat(whole)}
           ELSE {}

\* the difference round2 is applied to in the latest calculateSavings call
SavedKgUnrounded ==
  Minus(Decimal(baselineArg, 1000), Decimal(emissionArg, 1000))

\* the ratio behind the percentage of the latest calculateSavings call
RatioUnrounded == Over(savingsData.savedKg, Decimal(baselineArg, 1000))

\* the statement of C13 as it was made: an exact tie is rounded to the
\* hundredth of larger magnitude (away from zero), also when it is negative
C13_TiesAwayFromZero ==
  (pc = "calculateSavings" /\ baselineArg # 0) =>
    /\ \A w \in TieWhole(SavedKgUnrounded, 100) :
         savingsData.savedKg
           = Decimal((IF SavedKgUnrounded.neg THEN -1 ELSE 1) * (w + 1), 100)
    /\ \A w \in TieWhole(RatioUnrounded, 10000) :
         savingsData.percentage
           = Decimal((IF RatioUnrounded.neg THEN -1 ELSE 1) * (w + 1), 100)

\* C13: the 2-decimal rounding round(x * 100) / 100 rounds exact ties to the
\* larger hundredth (toward plus infinity): a positive value exactly halfway
\* between two hundredths goes to the hundredth of larger magnitude, and a
\* negative one, such as the difference baseline - emission of
\* calculateSavings or the ratio behind its percentage, to the hundredth of
\* smaller magnitude.
C13_TiesTowardPlusInfinity ==
  (pc = "calculateSavings" /\ baselineArg # 0) =>
    /\ \A w \in TieWhole(SavedKgUnrounded, 100) :
         savingsData.savedKg
           = Decimal(IF SavedKgUnrounded.neg THEN -w ELSE w + 1, 100)
    /\ \A w \in TieWhole(RatioUnrounded, 10000) :
         savingsData.percentage
           = Decimal(IF RatioUnrounded.neg THEN -w ELSE w + 1, 100)

\* a negative difference and a negative ratio that are exact ties were
\* rounded: -0.125 kg to -0.12, and -0.01 / 0.32 to -3.12 per cent
C13_Witness ==
  /\ pc = "calculateSavings"
  /\ \/ /\ emissionArg = 625 /\ baselineArg = 500
        /\ TieWhole(SavedKgUnrounded, 100) = {12}
        /\ savingsData.savedKg = Decimal(-12, 100)
     \/ /\ emissionArg = 330 /\ baselineArg = 320
        /\ TieWhole(RatioUnrounded, 10000) = {312}
        /\ savingsData.percentage = Decimal(-312, 100)

(***************************************************************************)
(* Properties of Calculator.calculateCarbonCredits and estimateCreditPrice *)
(***************************************************************************)

\* C14: for every emissionKg >= 0, calculateCarbonCredits(emissionKg) equals
\* emissionKg / 1000 rounded to 4 decimals; calculateCarbonCredits(1250) is
\* 1.25.  The quotient is accepted in either reading, of the decimal passed
\* or of the Number stored.
C14_CreditsRounded ==
  (pc = "calculateCarbonCredits" /\ emissionKgArg >= 0) =>
    /\ \/ creditsNeeded = Decimal(RoundDiv(emissionKgArg, 10), 10000)
       \/ creditsNeeded
            = Decimal(BigRoundDiv(BigMulSmall(Decimal(emissionKgArg, 100).man, 10),
                                  <<1>>, Decimal(emissionKgArg, 100).exp), 10000)
    /\ emissionKgArg = 125000 => creditsNeeded = Decimal(125, 100)

\* the sum of two finite Numbers that are not negative, without rounding,
\* times k and rounded to the nearest integer, half up
SumTimesRounded(a, b, k) ==
  LET sum == ExactMinus(a, Negate(b))
  IN  BigRoundDiv(BigMulSmall(sum.mag, k), <<1>>, sum.exp)

\* C15: for every credits >= 0, estimateCreditPrice(credits) returns min =
\* credits * 50 rounded to 2 decimals, max = credits * 150 rounded to 2
\* decimals and average = (min + max) / 2 rounded to 2 decimals, min and max
\* being the values already rounded; estimateCreditPrice(1.25) is {62.5,
\* 187.5, 125}.  Each product, and the mean, is accepted in either reading,
\* of the decimals or of the Numbers stored.
C15_PricesRounded ==
  (pc = "estimateCreditPrice" /\ creditsArg >= 0) =>
    LET credits == Decimal(creditsArg, 10000)
        min == priceEstimate.min
        max == priceEstimate.max
    IN  /\ \/ min = Decimal(RoundDiv(creditsArg * 50, 100), 100)
           \/ min = Decimal(BigRoundDiv(BigMulSmall(credits.man, 5000), <<1>>,
                                        credits.exp), 100)
        /\ \/ max = Decimal(RoundDiv(creditsArg * 150, 100), 100)
           \/ max = Decimal(BigRoundDiv(BigMulSmall(credits.man, 15000), <<1>>,
                                        credits.exp), 100)
        /\ \/ priceEstimate.average
                = Decimal(RoundDiv(Hundredths(min) + Hundredths(max), 2), 100)
           \/ priceEstimate.average = Decimal(SumTimesRounded(min, max, 50), 100)
        /\ creditsArg = 12500 =>
             priceEstimate = [min |-> Decimal(625, 10),
                              max |-> Decimal(1875, 10),
                              average |-> Decimal(125, 1)]

\* C16: the credit functions return their zero value on negative input:
\* calculateCarbonCredits(e) is 0 for every e < 0, and estimateCreditPrice(c)
\* is {min: 0, max: 0, average: 0} for every c < 0.
C16_NegativeGivesZero ==
  /\ (pc = "calculateCarbonCredits" /\ emissionKgArg < 0) =>
       creditsNeeded = Zero
  /\ (pc = "estimateCreditPrice" /\ creditsArg < 0) =>
       priceEstimate = [min |-> Zero, max |-> Zero, average |-> Zero]

\* a negative emission, or a negative number of credits, large enough not
\* to round to 0, was passed
C16_Witness ==
  \/ pc = "calculateCarbonCredits" /\ emissionKgArg = -125000 /\ creditsNeeded = Zero
  \/ pc = "estimateCreditPrice" /\ creditsArg = -12500 /\ priceEstimate.max = Zero

(***************************************************************************)
(* Properties of the catalog RoutesDB.routes                               *)
(***************************************************************************)

\* the unordered pair of names a stored route connects, compared without
\* regard to letter case
RoutePair(i) ==
  {toLowerCase(routes[i].origin), toLowerCase(routes[i].destination)}

\* every stored route has a distanceKm above 0
RoutesPositive == \A i \in 1 .. Len(routes) : routes[i].distanceKm > 0

\* no two stored routes connect the same unordered pair of names
RoutesDistinct ==
  \A i, j \in 1 .. Len(routes) : i # j => RoutePair(i) # RoutePair(j)

\* C18: the route catalog is well formed: every stored route has
\* distanceKm > 0, and no two stored routes connect the same unordered pair
\* of city names compared case-insensitively, so that a lookup of
\* findDistance never has two stored routes to pick from, and the distance
\* it finds is above 0.
C18_CatalogWellFormed ==
  /\ RoutesPositive
  /\ RoutesDistinct
  /\ pc \in {"findDistance", "typed"} =>
       /\ Cardinality(Connecting(originValue, destinationValue)) <= 1
       /\ distance # null =>
            IsFinite(distance) /\ ~distance.neg /\ distance # Zero

\* the shortest stored route, of 13 km, was looked up from its destination
\* in another spelling, and it is the one route connecting the two names
C18_Witness ==
  /\ pc = "typed"
  /\ originValue # cityA
  /\ Cardinality(Connecting(originValue, destinationValue)) = 1
  /\ \E i \in Connecting(originValue, destinationValue) :
       /\ cityA = routes[i].destination
       /\ routes[i].distanceKm = 13
  /\ distance = Decimal(13, 1)

(***************************************************************************)
(* Properties of the submit handler                                        *)
(***************************************************************************)

\* s has a character that is not white space
NonBlank(s) == \E i \in 1 .. Len(s) : s[i] \notin WhiteSpace

\* the distance field parses to a number greater than zero
PositiveDistance(s) ==
  LET d == parseFloat(s)
  IN  (IsFinite(d) \/ IsInfinite(d)) /\ ~d.neg /\ d # Zero

\* the form passes the checks: origin and destination are not empty after
\* trimming, the distance parses to a number > 0, a transport mode is
\* selected
ValidForm(form) ==
  /\ NonBlank(form.origin)
  /\ NonBlank(form.destination)
  /\ PositiveDistance(form.distance)
  /\ form.transport # nullString

\* C19: the submit handler calls the Calculator functions only for
\* validated input: every call of a timer callback, and every timer that
\* is pending, comes from a submit whose form passed the checks, and the
\* calls are made on the distance and the mode of that form; a submit
\* whose form fails a check sets no timer and makes no call.
C19_CallsOnlyForValidSubmits ==
  /\ \A i \in 1 .. Len(calls) :
       /\ calls[i].submit \in 1 .. submits
       /\ ValidForm(calls[i].form)
       /\ distanceValue = parseFloat(calls[i].form.distance)
       /\ selectedMode = calls[i].form.transport
  /\ \A i \in 1 .. Len(timers) :
       /\ timers[i].submit \in 1 .. submits
       /\ ValidForm(timers[i].form)
  /\ ~ValidForm(fields) =>
       /\ \A i \in 1 .. Len(calls) : calls[i].submit # submits
       /\ \A i \in 1 .. Len(timers) : timers[i].submit # submits

\* a submit was rejected after the callback of an earlier one made its six
\* calls
C19_Witness ==
  /\ Len(calls) = 6
  /\ submits >= 2
  /\ ~ValidForm(fields)
  /\ alertMessage = "A distancia deve ser maior que zero"
  /\ timers = <<>>

\* while the timer of a submit is pending the button is disabled and shows
\* the spinner, the three sections are hidden, and no call was made for
\* that submit
LoadingWhilePending ==
  \A i \in 1 .. Len(timers) :
    /\ submitButton.disabled
    /\ submitButton.innerHTML = showLoading(submitButton).innerHTML
    /\ Sections \subseteq hidden
    /\ \A j \in 1 .. Len(calls) : calls[j].submit # timers[i].submit

\* a step that makes Calculator calls or shows a section is the callback
\* of the oldest pending timer, and the calls are those of its submit
OnlyInCallback ==
  (calls' # calls \/ ~(hidden \subseteq hidden')) =>
    /\ timers # <<>>
    /\ timers' = Tail(timers)
    /\ \A j \in 1 .. Len(calls') : calls'[j].submit = Head(timers).submit

\* C20: between a valid submit and the firing of its timer the submit
\* button is in the loading state (disabled), the three result sections
\* are hidden and no Calculator function has run for that submit; the
\* calculation and the showing of the sections happen only inside the
\* timer callback.
C20_LoadingUntilTimerFires == []LoadingWhilePending /\ [][OnlyInCallback]_vars

\* a second valid submit is pending: the sections that the first callback
\* showed are hidden again, and the calls made are those of the first
C20_Witness ==
  /\ Len(timers) = 1
  /\ timers[1].submit = 2
  /\ Len(calls) = 6
  /\ calls[1].submit = 1
  /\ content # undefined
  /\ submitButton.disabled
  /\ hidden = Sections

\* the button is enabled and shows the markup it had when the page loaded
Restored == ~submitButton.disabled /\ submitButton.innerHTML = ButtonLabel

\* the step of a timer callback leaves the button restored
CallbackRestores == (timers # <<>> /\ timers' = Tail(timers)) => Restored'

\* C21: every valid submit eventually leaves the loading state: its timer
\* callback runs, and once it has run the submit button is enabled again
\* and shows its original label, both when the calculation and the
\* rendering succeed and when the rendering throws.
C21_LeavesLoading ==
  /\ (timers # <<>>) ~> (timers = <<>> /\ Restored)
  /\ [][CallbackRestores]_vars

\* the callback of a second submit has thrown, after the callback of the
\* first rendered its results, and the button is restored
C21_Witness ==
  /\ submits = 2
  /\ content # undefined
  /\ Len(calls) = 6
  /\ calls[1].submit = 2
  /\ alertMessage = "Ocorreu um erro ao realizar o calculo. Por favor, tente novamente."
  /\ hidden = Sections
  /\ Restored

\* the markup showLoading puts in the button
Spinner == showLoading(submitButton).innerHTML

\* at most one timer is pending, the button is disabled while one is, and
\* the label showLoading saved is never the spinner
OneTimerPending ==
  /\ Len(timers) <= 1
  /\ timers # <<>> => submitButton.disabled
  /\ submitButton.originalText # Spinner

\* a submit event comes only while no timer is pending and the button does
\* not show the spinner
SubmitOnlyWhenIdle ==
  submits' # submits =>
    /\ timers = <<>>
    /\ ~submitButton.disabled
    /\ submitButton.innerHTML # Spinner

\* C22: while a calculation is pending the submit button is disabled and
\* blocks further submits, so at most one timer is pending at any time and
\* UI.showLoading never runs on a button that already shows the loading
\* markup (it never saves the spinner as the original label).
C22_AtMostOneTimer == []OneTimerPending /\ [][SubmitOnlyWhenIdle]_vars

\* the timer of a second valid submit is pending alone, and the label that
\* showLoading saved is the one of the page
C22_Witness ==
  /\ submits = 2
  /\ Len(timers) = 1
  /\ timers[1].submit = 2
  /\ submitButton.innerHTML = Spinner
  /\ submitButton.originalText = ButtonLabel
  /\ calls # <<>>

\* the message of the alert of the catch block
ErrorMessage ==
  "Ocorreu um erro ao realizar o calculo. Por favor, tente novamente."

\* the three contents are those of the closure c and of the values the
\* Calculator returned to its callback
AllRendered(c) ==
  /\ content'.results.origin = c.values.originValue
  /\ content'.results.destination = c.values.destinationValue
  /\ content'.results.distance = c.values.distanceValue
  /\ content'.results.mode = c.values.transportMode
  /\ content'.results.emission = selectedModeEmission'
  /\ content'.comparison.modesArray = allModesComparison'
  /\ content'.comparison.selectedMode = c.values.transportMode
  /\ content'.credits.credits = creditsNeeded'
  /\ content'.credits.price = priceEstimate'

\* a callback either renders the three contents and shows the three
\* sections, or, when the mode has no entry in CONFIG.TRANSPORT_MODES for
\* UI.renderResults to read, alerts and leaves sections and contents alone
ShownOrAlerted ==
  TimerDue =>
    IF Head(timers).values.transportMode
         \in Elements(ObjectKeys(TRANSPORT_MODES))
    THEN /\ hidden' = {}
         /\ AllRendered(Head(timers))
         /\ alertMessage' = alertMessage
    ELSE /\ hidden' = Sections
         /\ content' = content
         /\ alertMessage' = ErrorMessage

\* a section is shown only by a callback, with the other two
ShownTogether == ~(hidden \subseteq hidden') => TimerDue /\ hidden' = {}

\* C23: the result sections are shown all-or-nothing: the three sections
\* become visible only once the results, the comparison and the credits
\* are all rendered; when a step of the callback throws, the user is
\* alerted and all three sections stay hidden.
C23_AllOrNothing ==
  /\ [](hidden \in {{}, Sections} /\ (hidden = {} => content # undefined))
  /\ [][ShownOrAlerted /\ ShownTogether]_vars

\* the callback of the first submit has thrown: the alert, nothing
\* rendered and the three sections hidden
C23_Witness ==
  /\ submits = 1
  /\ timers = <<>>
  /\ Len(calls) = 6
  /\ alertMessage = ErrorMessage
  /\ content = undefined
  /\ hidden = Sections

\* a submit of a form that fails a check alerts and leaves the button, the
\* sections, the contents and the timers as they were
RejectedChangesNothing ==
  (submits' # submits /\ ~ValidForm(fields')) =>
    /\ alertMessage' # ""
    /\ alertMessage' # ErrorMessage
    /\ UNCHANGED <<submitButton, hidden, content, timers, calls>>

\* C24: a submit that fails validation (empty origin, empty destination,
\* a distance that is not a number or is <= 0, no transport mode) changes
\* nothing: the button does not enter the loading state, the sections
\* shown before and their contents stay as they were, and no timer is set.
C24_RejectedSubmitChangesNothing == [][RejectedChangesNothing]_vars

\* a submit without a transport mode was rejected while the results of
\* the submit before it are shown
C24_Witness ==
  /\ submits = 2
  /\ ~ValidForm(fields)
  /\ alertMessage = "Por favor, selecione um modo de transporte"
  /\ hidden = {}
  /\ content # undefined
  /\ timers = <<>>
  /\ Restored

(***************************************************************************)
(* Properties of the distance autofill and of the manual-distance checkbox *)
(***************************************************************************)

\* the distance field holds the distance of a route of the catalog that
\* connects the two names, in decimal digits
HoldsCatalogDistance(a, b, value) ==
  \E i \in Connecting(a, b) : value = DigitsOf(routes[i].distanceKm)

\* what a change of the origin or of the destination leaves in the form
Autofilled ==
  IF NonBlank(originInput') /\ NonBlank(destinationInput')
  THEN IF Connecting(originInput', destinationInput') # {}
       THEN /\ HoldsCatalogDistance(originInput', destinationInput',
                                    distanceInput'.value)
            /\ distanceInput'.readonly
            /\ ~manualCheckbox'.checked
       ELSE distanceInput'.value = <<>>
  ELSE /\ distanceInput'.value = <<>>
       /\ distanceInput'.readonly
       /\ ~manualCheckbox'.checked

\* C25: on a change of the origin or of the destination, if both fields
\* are non-empty and the catalog has the route, the distance field is set
\* to the catalog distance, made readonly, and the manual checkbox is
\* unchecked, whatever distance was typed; if both are non-empty and no
\* route exists, the distance field is cleared; if either is empty, the
\* distance field is cleared, made readonly and the checkbox unchecked.
C25_AutofillOnChange ==
  [][(originInput' # originInput \/ destinationInput' # destinationInput)
       => Autofilled]_vars

\* the route from Sao Paulo to Rio de Janeiro was found for a destination
\* typed in capitals after a space: 430 km, readonly, unchecked
C25_Witness ==
  /\ pc = "form"
  /\ originInput = routes[1].origin
  /\ destinationInput = <<32>> \o toUpperCase(routes[1].destination)
  /\ distanceInput = [value |-> <<52, 51, 48>>, readonly |-> TRUE]
  /\ ~manualCheckbox.checked
  /\ helperText.color = "#10b981"

\* C26: after the manual-distance checkbox is unchecked and all of its
\* change listeners (the readonly toggle and the autofill listener) have
\* run, the distance field is readonly, and it holds the catalog distance
\* when the origin and the destination have a route and is empty when
\* they have none.
C26_UncheckedRestoresAutofill ==
  (pc = "changed" /\ ~manualCheckbox.checked) =>
    /\ distanceInput.readonly
    /\ IF Connecting(originInput, destinationInput) # {}
       THEN HoldsCatalogDistance(originInput, destinationInput,
                                 distanceInput.value)
       ELSE distanceInput.value = <<>>

\* the checkbox was unchecked with Sao Paulo and Campinas in the fields:
\* the 95 km of the catalog are back in the readonly field
C26_Witness ==
  /\ pc = "changed"
  /\ ~manualCheckbox.checked
  /\ originInput = routes[4].origin
  /\ destinationInput = routes[4].destination
  /\ distanceInput = [value |-> <<57, 53>>, readonly |-> TRUE]

\* C27: from the form as loaded (distance readonly, manual checkbox
\* unchecked), after any sequence of origin changes, destination changes
\* and checkbox toggles whose listeners have run, the distance field is
\* editable if and only if the manual-distance checkbox is checked.
C27_EditableIffChecked ==
  Waiting => (~distanceInput.readonly <=> manualCheckbox.checked)

\* the checkbox was unchecked with Rio de Janeiro and Campinas in the
\* fields, which no route connects: the field is empty and readonly again
C27_Witness ==
  /\ pc = "changed"
  /\ ~manualCheckbox.checked
  /\ originInput = <<32>> \o toUpperCase(routes[1].destination)
  /\ destinationInput = routes[4].destination
  /\ Connecting(originInput, destinationInput) = {}
  /\ distanceInput = [value |-> <<>>, readonly |-> TRUE]
  /\ helperText.color = "#f59e0b"

\* the factor written in config.js for mode a is smaller than the one for b
SmallerFactor(a, b) ==
  FactorWritten[a][1] * FactorWritten[b][2]
    < FactorWritten[b][1] * FactorWritten[a][2]

\* C28: in every non-empty calculateAllModes result a mode with a smaller
\* emission factor never has a larger rounded emission, the first entry is
\* the bicycle with emission 0, and the last entry is the truck, whose
\* emission no other entry exceeds (the 100% of the comparison bars).
C28_FactorOrderBicycleFirstTruckLast ==
  (pc = "calculateAllModes" /\ allModesComparison # <<>>) =>
    /\ \A i, j \in 1 .. Len(allModesComparison) :
         SmallerFactor(allModesComparison[i].mode, allModesComparison[j].mode)
           => NotGreater(allModesComparison[i].emission,
                         allModesComparison[j].emission)
    /\ allModesComparison[1].mode = "bicycle"
    /\ allModesComparison[1].emission = Zero
    /\ allModesComparison[Len(allModesComparison)].mode = "truck"
    /\ \A i \in 1 .. Len(allModesComparison) :
         NotGreater(allModesComparison[i].emission,
                    allModesComparison[Len(allModesComparison)].emission)

\* a non-empty comparison in which the bus emission rounds to 0 as the
\* bicycle's does, and the bicycle still comes first
C28_Witness ==
  /\ pc = "calculateAllModes"
  /\ Len(allModesComparison) = Cardinality(KnownModes)
  /\ allModesComparison[1].mode = "bicycle"
  /\ allModesComparison[2].mode = "bus"
  /\ allModesComparison[2].emission = Zero

====
